---------------------------- MODULE BillingProofs ----------------------------
(***************************************************************************)
(* The plan that is shown is the plan that is paid, for any number of      *)
(* subscriptions, events, checkouts and requests of the webhook; and what  *)
(* a plan and the limiter allow is kept to, for any number of works and    *)
(* attempts.                                                               *)
(***************************************************************************)
EXTENDS StripeWebhook, Limits, SequenceTheorems, FiniteSetTheorems, TLAPS

-----------------------------------------------------------------------------
(* Types                                                                   *)

Sub == [price : Price, status : Status, customer : Nat]
Kinds == {"created", "checkout", "updated", "payment_failed", "deleted"}
Message == [type : Kinds, id : Nat, sub : Sub, done : BOOLEAN]
Row == [plan : Plan \cup {"free"}, status : Status, sub : Nat, customer : Nat]

Types ==
  /\ subs \in Seq(Sub)
  /\ events \in Seq(Message)
  /\ row \in Row
  /\ session \in [Checkout -> [is : {"none", "open", "paid"}, customer : Nat]]
  /\ hook \in [Hook -> [event : Nat, sub : Sub]]
  /\ straight \in BOOLEAN
  /\ \A h \in Hook : hook[h].event <= Len(events)
  /\ \A n \in 1 .. Len(events) : events[n].id \in 1 .. Len(subs)

-----------------------------------------------------------------------------
(* The invariant                                                           *)

Now == subs[Len(subs)]
Last == events[Len(events)]

\* What the row should say of the subscription of this moment; what it says of
\* a canceled one is that there is no plan.
Agrees ==
  IF Now.status = "canceled" THEN row.plan = "free"
  ELSE row.status = Now.status /\ (Now.price \in Plan => row.plan = Now.price)

\* The events before the one that is handled have been, and one request of the
\* webhook works at a time, with the subscription as its event has it, or as
\* Stripe has it now.
InOrder ==
  /\ \A n \in 1 .. Len(events) : \A m \in 1 .. n - 1 : events[n].done => events[m].done
  /\ \A h \in Hook : hook[h].event # 0 =>
       LET n == hook[h].event
       IN  /\ ~ events[n].done
           /\ \A m \in 1 .. n - 1 : events[m].done
           /\ events[n].type # "checkout" => hook[h].sub = events[n].sub
           /\ events[n].type = "checkout" /\ n = Len(events) => hook[h].sub = Now
  /\ \A g, h \in Hook : hook[g].event # 0 /\ hook[h].event # 0 => g = h

\* One subscription lives at a time, and the last event is of the last one, as
\* it is now; a payment that failed comes with the change that says so.
UpToDate ==
  /\ \A i \in 1 .. Len(subs) - 1 : subs[i].status = "canceled"
  /\ Len(events) = 0 <=> Len(subs) = 0
  /\ Len(events) > 0 =>
       /\ Last.id = Len(subs) /\ Last.sub = Now
       /\ Last.type = "deleted" <=> Now.status = "canceled"
       /\ Last.type = "payment_failed" =>
            /\ Len(events) > 1 /\ Now.status = "past_due"
            /\ events[Len(events) - 1].type = "updated"
            /\ events[Len(events) - 1].id = Len(subs)
            /\ events[Len(events) - 1].sub = Now

\* Once the last change has been handled, the row agrees.
Applied ==
  /\ Len(events) = 0 => row.plan = "free"
  /\ Len(events) > 0 /\ Last.done => Agrees
  /\ Len(events) > 1 /\ Last.type = "payment_failed" /\ events[Len(events) - 1].done => Agrees

PaidInv == Types /\ (straight => InOrder /\ UpToDate /\ Applied)

LEMMA EventsAre ==
  ASSUME Types
  PROVE  /\ Len(events) \in Nat /\ DOMAIN events = 1 .. Len(events)
         /\ \A n \in 1 .. Len(events) : events[n] \in Message
         /\ Len(subs) \in Nat /\ DOMAIN subs = 1 .. Len(subs)
         /\ \A i \in 1 .. Len(subs) : subs[i] \in Sub
BY LenProperties, ElementOfSeq DEF Types

LEMMA NobodyHandles ==
  ASSUME Handling = {}, NEW h \in Hook
  PROVE  hook[h].event = 0
BY DEF Handling

LEMMA InitPaid == Init => PaidInv
<1> SUFFICES ASSUME Init PROVE PaidInv
  OBVIOUS
<1>1. subs \in Seq(Sub) /\ events \in Seq(Message) /\ Len(subs) = 0 /\ Len(events) = 0
  BY EmptySeq DEF Init
<1> QED BY <1>1 DEF Init, PaidInv, Types, InOrder, UpToDate, Applied, NoRow, NoSession, NoWork, Row, Sub,
   Price, Status, Plan

\* The invariant says what ChargedAsPaid says.
LEMMA PaidIsCharged == PaidInv => ChargedAsPaid
<1> SUFFICES ASSUME PaidInv, straight, Quiet, Paid \subseteq Plan
             PROVE  Effective(row) \in (IF Paid = {} THEN {"free"} ELSE Paid)
  BY DEF ChargedAsPaid
<1>1. Types /\ UpToDate /\ Applied
  BY DEF PaidInv
<1>2. CASE Len(subs) = 0
  <2>1. Paid = {}
    BY <1>1, <1>2, EventsAre DEF Paid
  <2>2. row.plan = "free"
    BY <1>1, <1>2 DEF UpToDate, Applied
  <2> QED BY <2>1, <2>2 DEF Effective
<1>3. CASE Len(subs) > 0
  <2>1. Len(events) \in Nat /\ Len(events) > 0 /\ Len(subs) \in Nat
    BY <1>1, <1>3, EventsAre DEF UpToDate
  <2>2. Agrees
    BY <1>1, <2>1, EventsAre DEF Quiet, Applied, Last
  <2>3. Paid = IF Now.status \in {"active", "past_due"} THEN {Now.price} ELSE {}
    BY <1>1, <1>3, EventsAre DEF Paid, UpToDate, Now
  <2>4. Now.status \in Status
    BY <1>1, <1>3, <2>1, EventsAre DEF Now, Sub
  <2> QED BY <2>2, <2>3, <2>4 DEF Agrees, Effective, Status
<1> QED BY <1>1, <1>2, <1>3, EventsAre

-----------------------------------------------------------------------------
(* Steps of Stripe                                                         *)

LEMMA TwoInARow ==
  ASSUME NEW S, NEW e \in S, NEW f \in S
  PROVE  <<e>> \o <<f>> = <<e, f>> /\ <<e>> \o <<>> = <<e>>
<1>1. /\ <<e>> \in Seq(S) /\ Len(<<e>>) = 1 /\ <<e>>[1] = e
      /\ <<f>> \in Seq(S) /\ Len(<<f>>) = 1 /\ <<f>>[1] = f
      /\ <<e, f>> \in Seq(S) /\ Len(<<e, f>>) = 2 /\ <<e, f>>[1] = e /\ <<e, f>>[2] = f
  OBVIOUS
<1>2. <<e>> \o <<f>> \in Seq(S) /\ Len(<<e>> \o <<f>>) = 2
        /\ \A i \in 1 .. 2 : (<<e>> \o <<f>>)[i] = IF i <= 1 THEN <<e>>[i] ELSE <<f>>[i - 1]
  BY <1>1, ConcatProperties
<1>3. \A i \in 1 .. 2 : (<<e>> \o <<f>>)[i] = <<e, f>>[i]
  BY <1>1, <1>2
<1>4. <<e>> \o <<f>> = <<e, f>>
  BY <1>1, <1>2, <1>3, SeqEqual
<1> QED BY <1>1, <1>4, ConcatEmptySeq

LEMMA EventIs ==
  ASSUME NEW t \in Kinds, NEW i \in Nat, NEW new \in Sub
  PROVE  /\ Event(t, i, new) \in Message
         /\ Event(t, i, new).type = t /\ Event(t, i, new).id = i
         /\ Event(t, i, new).sub = new /\ ~ Event(t, i, new).done
BY DEF Event, Message

\* What Emit adds.
LEMMA EmitOne ==
  ASSUME Types, NEW e \in Message, events' = events \o <<e>>
  PROVE  /\ events' \in Seq(Message) /\ Len(events') = Len(events) + 1
         /\ \A n \in 1 .. Len(events) : events'[n] = events[n]
         /\ events'[Len(events) + 1] = e
<1>1. <<e>> \in Seq(Message) /\ Len(<<e>>) = 1 /\ <<e>>[1] = e
  OBVIOUS
<1> QED BY <1>1, ConcatProperties, EventsAre DEF Types

LEMMA EmitTwo ==
  ASSUME Types, NEW e \in Message, NEW f \in Message, events' = events \o <<e, f>>
  PROVE  /\ events' \in Seq(Message) /\ Len(events') = Len(events) + 2
         /\ \A n \in 1 .. Len(events) : events'[n] = events[n]
         /\ events'[Len(events) + 1] = e /\ events'[Len(events) + 2] = f
<1>1. <<e, f>> \in Seq(Message) /\ Len(<<e, f>>) = 2 /\ <<e, f>>[1] = e /\ <<e, f>>[2] = f
  OBVIOUS
<1> QED BY <1>1, ConcatProperties, EventsAre DEF Types

\* Stripe makes one or two events more, none of which is handled yet.
LEMMA EmitKeepsOrder ==
  ASSUME PaidInv, straight, UNCHANGED hook, NEW k \in {1, 2},
         Len(events') = Len(events) + k,
         \A n \in 1 .. Len(events) : events'[n] = events[n],
         \A n \in Len(events) + 1 .. Len(events) + k : ~ events'[n].done
  PROVE  InOrder'
<1>1. Types /\ InOrder /\ Len(events) \in Nat
  BY EventsAre DEF PaidInv
<1>2. \A h \in Hook : hook'[h].event \in 0 .. Len(events)
  BY <1>1 DEF Types
<1> QED BY <1>1, <1>2 DEF InOrder

LEMMA PayKeeps ==
  ASSUME PaidInv, NEW s \in Checkout, NEW price \in Price, Pay(s, price)
  PROVE  PaidInv'
<1> DEFINE new == [price |-> price, status |-> "active",
                   customer |-> IF session[s].customer = 0 THEN Len(subs) + 1 ELSE session[s].customer]
           e == Event("created", Len(subs) + 1, new)
           f == Event("checkout", Len(subs) + 1, new)
<1>1. new \in Sub /\ new.status = "active" /\ subs' = Append(subs, new) /\ events' = events \o <<e, f>>
  <2>1. Len(subs) + 1 \in Nat /\ session[s].customer \in Nat
    BY EventsAre DEF PaidInv, Types
  <2>2. new \in Sub
    BY <2>1 DEF Sub, Status
  <2> QED BY <2>2 DEF Pay, Emit
<1> HIDE DEF new
<1>2. /\ straight' = (straight /\ \A j \in DOMAIN subs : ~ Alive(j)) /\ UNCHANGED <<row, hook>>
      /\ session' = [session EXCEPT ![s].is = "paid"]
  BY DEF Pay
<1>3. Types /\ Len(events) \in Nat /\ Len(subs) \in Nat
  BY EventsAre DEF PaidInv
<1>4. /\ subs' \in Seq(Sub) /\ Len(subs') = Len(subs) + 1 /\ subs'[Len(subs) + 1] = new
      /\ \A i \in 1 .. Len(subs) : subs'[i] = subs[i]
  BY <1>1, <1>3, AppendProperties DEF Types
<1>5. /\ e \in Message /\ e.id = Len(subs) + 1 /\ ~ e.done
      /\ f \in Message /\ f.type = "checkout" /\ f.id = Len(subs) + 1 /\ f.sub = new /\ ~ f.done
  BY <1>1, <1>3, EventIs DEF Kinds
<1> HIDE DEF e, f
<1>6. /\ events' \in Seq(Message) /\ Len(events') = Len(events) + 2
      /\ \A n \in 1 .. Len(events) : events'[n] = events[n]
      /\ events'[Len(events) + 1] = e /\ events'[Len(events) + 2] = f
  BY <1>1, <1>3, <1>5, EmitTwo
<1>7. Types'
  <2>1. \A n \in 1 .. Len(events') : events'[n].id \in 1 .. Len(subs')
    <3> TAKE n \in 1 .. Len(events')
    <3>1. n \in 1 .. Len(events) \/ n = Len(events) + 1 \/ n = Len(events) + 2
      BY <1>3, <1>6
    <3> QED BY <1>3, <1>4, <1>5, <1>6, <3>1 DEF Types
  <2>2. session' \in [Checkout -> [is : {"none", "open", "paid"}, customer : Nat]]
    BY <1>2, <1>3 DEF Types
  <2>3. straight' \in BOOLEAN
    BY <1>2, <1>3 DEF Types
  <2> QED BY <1>2, <1>3, <1>4, <1>6, <2>1, <2>2, <2>3 DEF Types
<1>8. ASSUME straight' PROVE InOrder' /\ UpToDate' /\ Applied'
  <2>1. straight /\ \A j \in 1 .. Len(subs) : subs[j].status = "canceled"
    BY <1>2, <1>3, <1>8, EventsAre DEF Alive
  <2>2. InOrder'
    BY <1>2, <1>5, <1>6, <2>1, EmitKeepsOrder
  <2>3. UpToDate'
    BY <1>1, <1>3, <1>4, <1>5, <1>6, <2>1 DEF UpToDate, Now, Last
  <2>4. Applied'
    BY <1>3, <1>5, <1>6 DEF Applied, Last
  <2> QED BY <2>2, <2>3, <2>4
<1> QED BY <1>7, <1>8 DEF PaidInv

LEMMA SubChanges ==
  ASSUME PaidInv, NEW i \in DOMAIN subs, Alive(i), NEW new \in Sub,
         subs' = [subs EXCEPT ![i] = new]
  PROVE  /\ subs' \in Seq(Sub) /\ Len(subs') = Len(subs) /\ i \in 1 .. Len(subs) /\ Len(subs) \in Nat
         /\ \A j \in 1 .. Len(subs) : subs'[j] = IF j = i THEN new ELSE subs[j]
         /\ straight => i = Len(subs)
<1>1. Types /\ Len(subs) \in Nat /\ i \in 1 .. Len(subs)
  BY EventsAre DEF PaidInv
<1>2. subs \in Seq(Sub)
  BY <1>1 DEF Types
<1>3. straight => i = Len(subs)
  BY <1>1 DEF PaidInv, UpToDate, Alive
<1> QED BY <1>1, <1>2, <1>3, ExceptSeq

LEMMA ChangeKeeps ==
  ASSUME PaidInv, NEW i \in DOMAIN subs, NEW price \in Price, NEW status \in Status,
         Change(i, price, status)
  PROVE  PaidInv'
<1>0. Types /\ Len(events) \in Nat /\ i \in 1 .. Len(subs) /\ subs[i] \in Sub
  BY EventsAre DEF PaidInv
<1> DEFINE new == [subs[i] EXCEPT !.price = price, !.status = status]
           e == Event("updated", i, new)
           f == Event("payment_failed", i, new)
<1>1. /\ new \in Sub /\ new.status # "canceled" /\ subs' = [subs EXCEPT ![i] = new]
      /\ events' = events \o <<e>> \/ (new.status = "past_due" /\ events' = events \o <<e, f>>)
  <2>1. new \in Sub
    BY <1>0 DEF Sub
  <2>2. <<e>> \o <<f>> = <<e, f>> /\ <<e>> \o <<>> = <<e>>
    <3>1. e \in Message /\ f \in Message
      BY <1>0, <2>1, EventsAre, EventIs DEF Kinds
    <3> HIDE DEF e, f
    <3> QED BY <3>1, TwoInARow
  <2>3. new.status # "canceled" /\ subs' = [subs EXCEPT ![i] = new]
          /\ events' = events \o (<<e>> \o IF new.status = "past_due" /\ subs[i].status # "past_due"
                                        THEN <<f>> ELSE <<>>)
    BY DEF Change, Emit
  <2> HIDE DEF e, f, new
  <2> QED BY <2>1, <2>2, <2>3
<1> HIDE DEF new
<1>2. Alive(i) /\ UNCHANGED <<row, session, hook, straight>>
  BY DEF Change
<1>3. /\ subs' \in Seq(Sub) /\ Len(subs') = Len(subs) /\ Len(subs) \in Nat
      /\ \A j \in 1 .. Len(subs) : subs'[j] = IF j = i THEN new ELSE subs[j]
      /\ straight => i = Len(subs)
  BY <1>1, <1>2, SubChanges
<1>4. /\ e \in Message /\ e.type = "updated" /\ e.id = i /\ e.sub = new /\ ~ e.done
      /\ f \in Message /\ f.type = "payment_failed" /\ f.id = i /\ f.sub = new /\ ~ f.done
  BY <1>0, <1>1, <1>3, EventIs DEF Kinds
<1> HIDE DEF e, f
<1>5. PICK k \in {1, 2} :
        /\ events' \in Seq(Message) /\ Len(events') = Len(events) + k
        /\ \A n \in 1 .. Len(events) : events'[n] = events[n]
        /\ events'[Len(events) + 1] = e
        /\ k = 2 => events'[Len(events) + 2] = f /\ new.status = "past_due"
  <2>1. CASE events' = events \o <<e>>
    BY <1>0, <1>4, <2>1, EmitOne
  <2>2. CASE new.status = "past_due" /\ events' = events \o <<e, f>>
    BY <1>0, <1>4, <2>2, EmitTwo
  <2> QED BY <1>1, <2>1, <2>2
<1>6. Types'
  <2>1. \A n \in 1 .. Len(events') : events'[n].id \in 1 .. Len(subs')
    <3> TAKE n \in 1 .. Len(events')
    <3>1. n \in 1 .. Len(events) \/ n = Len(events) + 1 \/ (k = 2 /\ n = Len(events) + 2)
      BY <1>0, <1>5
    <3> QED BY <1>0, <1>3, <1>4, <1>5, <3>1 DEF Types
  <2> QED BY <1>0, <1>2, <1>3, <1>5, <2>1 DEF Types
<1>7. ASSUME straight' PROVE InOrder' /\ UpToDate' /\ Applied'
  <2>1. straight /\ i = Len(subs)
    BY <1>2, <1>3, <1>7
  <2>2. \A n \in Len(events) + 1 .. Len(events) + k : ~ events'[n].done
    BY <1>0, <1>4, <1>5
  <2>3. InOrder'
    BY <1>2, <1>5, <2>1, <2>2, EmitKeepsOrder
  <2>4. UpToDate'
    BY <1>0, <1>1, <1>3, <1>4, <1>5, <2>1 DEF PaidInv, UpToDate, Now, Last
  <2>5. Applied'
    BY <1>0, <1>4, <1>5 DEF Applied, Last
  <2> QED BY <2>3, <2>4, <2>5
<1> QED BY <1>6, <1>7 DEF PaidInv

LEMMA CancelKeeps ==
  ASSUME PaidInv, NEW i \in DOMAIN subs, Cancel(i)
  PROVE  PaidInv'
<1>0. Types /\ Len(events) \in Nat /\ i \in 1 .. Len(subs) /\ subs[i] \in Sub
  BY EventsAre DEF PaidInv
<1>1. PICK new \in Sub : new.status = "canceled" /\ subs' = [subs EXCEPT ![i] = new]
  <2>1. [subs[i] EXCEPT !.status = "canceled"] \in Sub
    BY <1>0 DEF Sub, Status
  <2>2. subs' = [subs EXCEPT ![i] = [subs[i] EXCEPT !.status = "canceled"]]
    BY DEF Cancel
  <2> QED BY <2>1, <2>2 DEF Sub
<1>2. Alive(i) /\ UNCHANGED <<row, session, hook, straight>>
  BY DEF Cancel
<1>3. /\ subs' \in Seq(Sub) /\ Len(subs') = Len(subs) /\ Len(subs) \in Nat
      /\ \A j \in 1 .. Len(subs) : subs'[j] = IF j = i THEN new ELSE subs[j]
      /\ straight => i = Len(subs)
  BY <1>1, <1>2, SubChanges
<1> DEFINE e == Event("deleted", i, new)
<1>4. /\ events' = events \o <<e>>
      /\ e \in Message /\ e.type = "deleted" /\ e.id = i /\ e.sub = new /\ ~ e.done
  <2>1. subs'[i] = new
    BY <1>0, <1>3
  <2>2. events' = events \o <<e>>
    BY <2>1 DEF Cancel, Emit
  <2> QED BY <1>0, <1>1, <1>3, <2>2, EventIs DEF Kinds
<1> HIDE DEF e
<1>5. /\ events' \in Seq(Message) /\ Len(events') = Len(events) + 1
      /\ \A n \in 1 .. Len(events) : events'[n] = events[n]
      /\ events'[Len(events) + 1] = e
  BY <1>0, <1>4, EmitOne
<1>6. Types'
  BY <1>0, <1>2, <1>3, <1>4, <1>5 DEF Types
<1>7. ASSUME straight' PROVE InOrder' /\ UpToDate' /\ Applied'
  <2>1. straight /\ i = Len(subs)
    BY <1>2, <1>3, <1>7
  <2>2. \A n \in Len(events) + 1 .. Len(events) + 1 : ~ events'[n].done
    BY <1>0, <1>4, <1>5
  <2>3. InOrder'
    BY <1>2, <1>5, <2>1, <2>2, EmitKeepsOrder
  <2>4. UpToDate'
    BY <1>0, <1>1, <1>3, <1>4, <1>5, <2>1 DEF PaidInv, UpToDate, Now, Last
  <2>5. Applied'
    BY <1>0, <1>4, <1>5 DEF Applied, Last
  <2> QED BY <2>3, <2>4, <2>5
<1> QED BY <1>6, <1>7 DEF PaidInv

-----------------------------------------------------------------------------
(* Steps of the panel and of the webhook                                   *)

LEMMA OpenKeeps ==
  ASSUME PaidInv, NEW s \in Checkout, OpenCheckout(s)
  PROVE  PaidInv'
<1>1. session' \in [Checkout -> [is : {"none", "open", "paid"}, customer : Nat]]
  BY DEF OpenCheckout, PaidInv, Types, Row
<1> QED BY <1>1 DEF OpenCheckout, PaidInv, Types, InOrder, UpToDate, Applied, Agrees, Now, Last

LEMMA DeliverKeeps ==
  ASSUME PaidInv, NEW h \in Hook, NEW n \in DOMAIN events, Deliver(h, n)
  PROVE  PaidInv'
<1>0. Types /\ Len(events) \in Nat /\ n \in 1 .. Len(events) /\ events[n] \in Message
        /\ events[n].id \in 1 .. Len(subs) /\ Len(subs) \in Nat
  BY EventsAre DEF PaidInv, Types
<1>1. PICK sub \in Sub :
        /\ hook' = [hook EXCEPT ![h] = [event |-> n, sub |-> sub]]
        /\ sub = IF events[n].type = "checkout" THEN subs[events[n].id] ELSE events[n].sub
  BY <1>0, EventsAre DEF Deliver, Message
<1>2. UNCHANGED <<subs, events, row, session>>
  BY DEF Deliver
<1>3. hook' \in [Hook -> [event : Nat, sub : Sub]] /\ hook'[h] = [event |-> n, sub |-> sub]
        /\ \A g \in Hook \ {h} : hook'[g] = hook[g]
  BY <1>0, <1>1 DEF Types
<1>4. Types'
  BY <1>0, <1>2, <1>3 DEF Types, Deliver
<1>5. ASSUME straight' PROVE InOrder' /\ UpToDate' /\ Applied'
  <2>1. /\ straight /\ ~ events[n].done /\ Handling = {}
        /\ \A m \in 1 .. n - 1 : events[m].done
    BY <1>5 DEF Deliver
  <2>2. \A g \in Hook : hook[g].event = 0
    BY <2>1, NobodyHandles
  <2>3. n = Len(events) => events[n].id = Len(subs)
    BY <1>0, <2>1 DEF PaidInv, UpToDate, Last
  <2>4. InOrder'
    BY <1>0, <1>1, <1>2, <1>3, <2>1, <2>2, <2>3 DEF PaidInv, InOrder, Now
  <2> QED BY <1>2, <2>1, <2>4 DEF PaidInv, UpToDate, Applied, Agrees, Now, Last
<1> QED BY <1>4, <1>5 DEF PaidInv

LEMMA FailKeeps ==
  ASSUME PaidInv, NEW h \in Hook, HandlerFails(h)
  PROVE  PaidInv'
<1>1. hook' = [hook EXCEPT ![h] = NoWork] /\ UNCHANGED <<subs, events, row, session, straight>>
  BY DEF HandlerFails
<1>2. NoWork \in [event : Nat, sub : Sub] /\ NoWork.event = 0
  BY DEF NoWork, Sub, Price, Status
<1>3. hook'[h] = NoWork /\ \A g \in Hook \ {h} : hook'[g] = hook[g]
  BY <1>1 DEF PaidInv, Types
<1>4. Types'
  BY <1>1, <1>2, <1>3, EventsAre DEF PaidInv, Types
<1>5. InOrder => InOrder'
  BY <1>1, <1>2, <1>3 DEF InOrder, Now
<1> QED BY <1>1, <1>4, <1>5 DEF PaidInv, UpToDate, Applied, Agrees, Now, Last

\* What a handler writes.
LEMMA HandleIs ==
  ASSUME PaidInv, NEW h \in Hook, Handle(h)
  PROVE  LET n == hook[h].event IN
         /\ n \in 1 .. Len(events) /\ events[n] \in Message /\ Len(events) \in Nat
         /\ UNCHANGED <<subs, session, straight>>
         /\ row' \in Row
         /\ events' \in Seq(Message) /\ Len(events') = Len(events)
         /\ events'[n] = [events[n] EXCEPT !.done = TRUE]
         /\ \A m \in 1 .. Len(events) : m # n => events'[m] = events[m]
         /\ hook'[h] = NoWork /\ \A g \in Hook \ {h} : hook'[g] = hook[g]
         /\ hook' \in [Hook -> [event : Nat, sub : Sub]]
<1> DEFINE n == hook[h].event
<1>1. Types /\ n \in 1 .. Len(events) /\ events[n] \in Message /\ Len(events) \in Nat
  BY EventsAre DEF PaidInv, Types, Handle
<1>2. [events[n] EXCEPT !.done = TRUE] \in Message
  BY <1>1 DEF Message
<1>3. events' = [events EXCEPT ![n] = [events[n] EXCEPT !.done = TRUE]] /\ events \in Seq(Message)
  BY <1>1 DEF Handle, Answered, Types
<1>4. /\ events' \in Seq(Message) /\ Len(events') = Len(events)
      /\ \A m \in 1 .. Len(events) :
           events'[m] = IF m = n THEN [events[n] EXCEPT !.done = TRUE] ELSE events[m]
  BY <1>1, <1>2, <1>3, ExceptSeq
<1>5. NoWork \in [event : Nat, sub : Sub]
  BY DEF NoWork, Sub, Price, Status
<1>6. row' \in Row
  <2>1. hook[h].sub \in Sub /\ row \in Row
    BY <1>1 DEF Types
  <2>2. ApplySubscription(events[n].id, hook[h].sub) \in Row
    BY <1>1, <2>1 DEF ApplySubscription, PlanOf, Row, Sub, Message
  <2>3. Clear \in Row /\ [row EXCEPT !.status = "past_due"] \in Row
    BY <2>1 DEF Clear, Row, Status
  <2> QED BY <1>1, <2>1, <2>2, <2>3 DEF Handle, Message, Kinds
<1>7. /\ hook'[h] = NoWork /\ \A g \in Hook \ {h} : hook'[g] = hook[g]
      /\ hook' \in [Hook -> [event : Nat, sub : Sub]]
  BY <1>1, <1>5 DEF Types, Handle, Answered
<1> QED BY <1>1, <1>4, <1>6, <1>7 DEF Handle

LEMMA HandleKeeps ==
  ASSUME PaidInv, NEW h \in Hook, Handle(h)
  PROVE  PaidInv'
<1> DEFINE n == hook[h].event
<1>0. /\ n \in 1 .. Len(events) /\ events[n] \in Message /\ Len(events) \in Nat
      /\ UNCHANGED <<subs, session, straight>>
      /\ row' \in Row
      /\ events' \in Seq(Message) /\ Len(events') = Len(events)
      /\ events'[n] = [events[n] EXCEPT !.done = TRUE]
      /\ \A m \in 1 .. Len(events) : m # n => events'[m] = events[m]
      /\ hook'[h] = NoWork /\ \A g \in Hook \ {h} : hook'[g] = hook[g]
      /\ hook' \in [Hook -> [event : Nat, sub : Sub]]
  BY HandleIs
<1> HIDE DEF n
<1>1. /\ \A m \in 1 .. Len(events) :
           /\ events'[m].type = events[m].type /\ events'[m].id = events[m].id
           /\ events'[m].sub = events[m].sub /\ (events'[m].done <=> events[m].done \/ m = n)
  BY <1>0, EventsAre DEF Message, PaidInv
<1>2. NoWork.event = 0
  BY DEF NoWork
<1>3. Types'
  <2>1. \A g \in Hook : hook'[g].event <= Len(events')
    <3> TAKE g \in Hook
    <3>1. CASE g = h
      BY <1>0, <1>2, <3>1
    <3>2. CASE g # h
      <4>1. hook[g].event <= Len(events)
        BY DEF PaidInv, Types
      <4>2. hook'[g] = hook[g] /\ Len(events') = Len(events)
        BY <1>0, <3>2
      <4> QED BY <4>1, <4>2
    <3> QED BY <3>1, <3>2
  <2>2. \A m \in 1 .. Len(events') : events'[m].id \in 1 .. Len(subs')
    BY <1>0, <1>1 DEF PaidInv, Types
  <2>3. subs' \in Seq(Sub) /\ session' \in [Checkout -> [is : {"none", "open", "paid"}, customer : Nat]]
          /\ straight' \in BOOLEAN
    BY <1>0 DEF PaidInv, Types
  <2> QED BY <1>0, <2>1, <2>2, <2>3 DEF Types
<1>4. ASSUME straight PROVE InOrder' /\ UpToDate' /\ Applied'
  <2>1. InOrder /\ UpToDate /\ Applied /\ Types
    BY <1>4 DEF PaidInv
  <2>2. /\ ~ events[n].done /\ (\A m \in 1 .. n - 1 : events[m].done)
        /\ events[n].type # "checkout" => hook[h].sub = events[n].sub
        /\ events[n].type = "checkout" /\ n = Len(events) => hook[h].sub = Now
        /\ \A g \in Hook \ {h} : hook[g].event = 0
    BY <1>0, <2>1 DEF InOrder, n
  <2>3. InOrder'
    <3>1. \A g \in Hook : hook'[g].event = 0
      BY <1>0, <1>2, <2>2
    <3>2. ASSUME NEW k \in 1 .. Len(events'), NEW m \in 1 .. k - 1, events'[k].done
          PROVE  events'[m].done
      <4>1. k \in 1 .. Len(events) /\ m \in 1 .. Len(events) /\ (events[k].done \/ k = n)
        BY <1>0, <1>1, <3>2
      <4>2. events[m].done
        BY <4>1, <3>2, <2>1, <2>2 DEF InOrder
      <4> QED BY <1>1, <4>1, <4>2
    <3> QED BY <3>1, <3>2 DEF InOrder
  <2>4. UpToDate'
    <3>1. Len(events) > 0 /\ Last'.type = Last.type /\ Last'.id = Last.id /\ Last'.sub = Last.sub
      BY <1>0, <1>1 DEF Last
    <3>2. Len(events) > 1 =>
            /\ events'[Len(events) - 1].type = events[Len(events) - 1].type
            /\ events'[Len(events) - 1].id = events[Len(events) - 1].id
            /\ events'[Len(events) - 1].sub = events[Len(events) - 1].sub
      BY <1>0, <1>1
    <3>3. Now' = Now
      BY <1>0 DEF Now
    <3> QED BY <1>0, <2>1, <3>1, <3>2, <3>3 DEF UpToDate
  <2>5. Now' = Now /\ Len(events) > 0
    BY <1>0 DEF Now
  <2>6. ASSUME n = Len(events) \/ (n = Len(events) - 1 /\ Last.type = "payment_failed")
        PROVE  Agrees'
    <3>1. row' = CASE events[n].type \in {"checkout", "created", "updated"} ->
                        ApplySubscription(events[n].id, hook[h].sub)
                   [] events[n].type = "deleted" -> IF row = NoRow THEN row ELSE Clear
                   [] events[n].type = "payment_failed" ->
                        IF row.customer = events[n].sub.customer THEN [row EXCEPT !.status = "past_due"]
                        ELSE row
      BY DEF Handle, n
    <3>2. Now \in Sub /\ row \in Row
      BY <2>1, <2>5, EventsAre DEF Now, UpToDate, Types
    <3>3. CASE events[n].type \in {"checkout", "created", "updated"}
      <4>1. hook[h].sub = Now /\ Now.status # "canceled"
        BY <2>1, <2>2, <2>6, <3>3, <1>0 DEF UpToDate, Last
      <4>2. row' = ApplySubscription(events[n].id, Now)
        BY <3>1, <3>3, <4>1
      <4> QED BY <2>5, <3>2, <4>1, <4>2 DEF Agrees, ApplySubscription, PlanOf, Plan
    <3>4. CASE events[n].type = "deleted"
      <4>1. Now.status = "canceled"
        BY <2>1, <2>6, <3>4, <1>0 DEF UpToDate, Last
      <4>2. row'.plan = "free"
        BY <3>1, <3>2, <3>4 DEF NoRow, Clear, Row
      <4> QED BY <2>5, <4>1, <4>2 DEF Agrees
    <3>5. CASE events[n].type = "payment_failed"
      <4>1. n = Len(events) /\ n > 1 /\ Now.status = "past_due" /\ events[n - 1].done
        BY <2>1, <2>2, <2>6, <3>5, <1>0 DEF UpToDate, Last
      <4>2. Agrees
        BY <2>1, <3>5, <4>1 DEF Applied, Last
      <4>3. row' \in {row, [row EXCEPT !.status = "past_due"]}
        BY <3>1, <3>5
      <4> QED BY <2>5, <3>2, <4>1, <4>2, <4>3 DEF Agrees, Row
    <3> QED BY <3>3, <3>4, <3>5, <1>0 DEF Message, Kinds
  <2>7. ASSUME n # Len(events) /\ ~ (n = Len(events) - 1 /\ Last.type = "payment_failed")
        PROVE  Applied'
    <3>1. n \in 1 .. Len(events) - 1 /\ Len(events) \in 1 .. Len(events)
      BY <1>0, <2>7
    <3>2. ~ Last.done
      BY <3>1, <2>1, <2>2 DEF InOrder, Last
    <3>3. Last.type = "payment_failed" => ~ events[Len(events) - 1].done
      <4> SUFFICES ASSUME Last.type = "payment_failed" PROVE ~ events[Len(events) - 1].done
        OBVIOUS
      <4>1. n \in 1 .. (Len(events) - 1) - 1 /\ Len(events) - 1 \in 1 .. Len(events)
        BY <1>0, <3>1, <2>7
      <4> QED BY <4>1, <2>1, <2>2 DEF InOrder
    <3>4. ~ Last'.done /\ Last'.type = Last.type
      BY <1>0, <1>1, <3>1, <3>2, <2>7 DEF Last
    <3>5. Last.type = "payment_failed" /\ Len(events) > 1 => ~ events'[Len(events) - 1].done
      BY <1>0, <1>1, <3>3, <2>7
    <3> QED BY <1>0, <2>5, <3>4, <3>5 DEF Applied
  <2>8. Agrees' => Applied'
    BY <1>0, <2>5 DEF Applied
  <2> QED BY <2>3, <2>4, <2>6, <2>7, <2>8
<1> QED BY <1>0, <1>3, <1>4 DEF PaidInv

-----------------------------------------------------------------------------

LEMMA NextKeepsPaid == PaidInv /\ [Next]_vars => PaidInv'
<1> SUFFICES ASSUME PaidInv, [Next]_vars PROVE PaidInv'
  OBVIOUS
<1>1. CASE \E s \in Checkout : OpenCheckout(s) \/ \E p \in Price : Pay(s, p)
  BY <1>1, OpenKeeps, PayKeeps
<1>2. CASE \E i \in DOMAIN subs : Cancel(i) \/ \E p \in Price, t \in Status : Change(i, p, t)
  BY <1>2, CancelKeeps, ChangeKeeps
<1>3. CASE \E h \in Hook : Handle(h) \/ HandlerFails(h) \/ \E n \in DOMAIN events : Deliver(h, n)
  BY <1>3, HandleKeeps, FailKeeps, DeliverKeeps
<1>4. CASE UNCHANGED vars
  BY <1>4 DEF vars, PaidInv, Types, InOrder, UpToDate, Applied, Agrees, Now, Last
<1> QED BY <1>1, <1>2, <1>3, <1>4 DEF Next

\* When every event was delivered once and in the order it was made, to a
\* workspace with one subscription at a time, the panel shows what Stripe
\* charges: applySubscription and the handlers of the webhook lose no change.
THEOREM ChargedAsPaidHolds == Spec => []ChargedAsPaid
BY InitPaid, NextKeepsPaid, PaidIsCharged, PTL DEF Spec

-----------------------------------------------------------------------------
(* The limits: the guards of a plan (G) and the limiter (L), side by side   *)

CONSTANTS Limit, MaxUse, Attempt, Bucket, MaxTime
VARIABLES account, work, time, lRow

G == INSTANCE PlanGuard
L == INSTANCE RateLimiter WITH row <- lRow

\* PLANS: every plan allows a post.
GuardAssumption ==
  /\ IsFiniteSet(Work) /\ Work # {}
  /\ \A p \in {"free", "starter"} :
       /\ Limit[p] \in [{"post", "site"} -> 0 .. G!Boundless]
       /\ Limit[p]["post"] > 0

LimiterAssumption ==
  /\ Window \in Nat \ {0}
  /\ Bucket \in Seq(STRING) /\ Bucket # <<>>
  /\ MaxHits \in [DOMAIN Bucket -> Nat \ {0}]

-----------------------------------------------------------------------------
(* The guards of a plan                                                    *)

GuardTypes ==
  /\ account \in [plan : {"free", "starter"}, status : {"active", "canceled"},
                  bypass : BOOLEAN, byok : BOOLEAN]
  /\ used \in [G!Kind -> Nat]
  /\ peak \in [G!Kind -> Nat]
  /\ work \in [Work -> [kind : G!Kind \cup {"none"}, pc : {"idle", "plan", "limit", "act"},
                        plan : G!PlanId, limit : Nat]]
  /\ \A w \in Work : work[w].pc # "idle" => work[w].kind \in G!Kind

\* A work that may still use k although the limit it goes by is more than any
\* guard allows since: one that has passed, or one that read before the month.
Late(w, k) ==
  /\ work[w].kind = k
  /\ \/ work[w].pc = "act"
     \/ work[w].pc = "limit" /\ work[w].limit > peak[k]
     \/ work[w].pc = "plan" /\ G!Raw(work[w].plan, k) > peak[k]

LateOnes(k) == {w \in Work : Late(w, k)}

\* The peak covers what the guards allow now, and what is used or may be used
\* late leaves one of the works under way.
GuardInv ==
  /\ GuardTypes
  /\ \A k \in G!Kind :
       /\ G!Allowed(account, k) <= peak[k]
       /\ used[k] + Cardinality(LateOnes(k)) <= peak[k] + Cardinality(Work) - 1

LEMMA BoundlessIsNat == G!Boundless \in Nat /\ G!Boundless > 0
BY SMT DEF G!Boundless

LEMMA RawIsNat ==
  ASSUME GuardAssumption, NEW p \in G!PlanId, NEW k \in G!Kind
  PROVE  G!Raw(p, k) \in 0 .. G!Boundless
BY BoundlessIsNat DEF GuardAssumption, G!PlanId, G!Kind, G!Raw

LEMMA AllowedIsNat ==
  ASSUME GuardAssumption, NEW k \in G!Kind,
         NEW a \in [plan : {"free", "starter"}, status : {"active", "canceled"},
                    bypass : BOOLEAN, byok : BOOLEAN]
  PROVE  /\ G!WorkspacePlan(a) \in G!PlanId
         /\ G!Allowed(a, k) \in Nat
         /\ G!Raw(G!WorkspacePlan(a), k) <= G!Allowed(a, k)
         /\ k = "post" => G!Allowed(a, k) > 0
<1>1. G!WorkspacePlan(a) \in G!PlanId
  BY DEF G!WorkspacePlan, G!PlanId
<1>2. G!Raw(G!WorkspacePlan(a), k) \in 0 .. G!Boundless
  BY <1>1, RawIsNat
<1>3. k = "post" => G!Raw(G!WorkspacePlan(a), k) > 0
  BY <1>1, BoundlessIsNat DEF GuardAssumption, G!Raw, G!PlanId
<1> QED BY <1>1, <1>2, <1>3, BoundlessIsNat DEF G!Allowed

LEMMA LateOnesAreFew ==
  ASSUME GuardAssumption, NEW S, NEW T \in SUBSET Work, S \in SUBSET T
  PROVE  /\ IsFiniteSet(T) /\ Cardinality(S) \in Nat /\ Cardinality(T) \in Nat
         /\ Cardinality(Work) \in Nat /\ Cardinality(Work) > 0
         /\ Cardinality(S) <= Cardinality(T) /\ Cardinality(T) <= Cardinality(Work)
<1>1. IsFiniteSet(Work) /\ Work # {}
  BY DEF GuardAssumption
<1>2. IsFiniteSet(T) /\ Cardinality(T) <= Cardinality(Work)
  BY <1>1, FS_Subset
<1>3. IsFiniteSet(S) /\ Cardinality(S) <= Cardinality(T)
  BY <1>2, FS_Subset
<1> QED BY <1>1, <1>2, <1>3, FS_CardinalityType, FS_EmptySet

LEMMA InitGuard == GuardAssumption /\ G!Init => GuardInv
<1> SUFFICES ASSUME GuardAssumption, G!Init PROVE GuardInv
  OBVIOUS
<1>1. \A k \in G!Kind : G!Raw("free", k) \in Nat
  BY RawIsNat, BoundlessIsNat DEF G!PlanId
<1>2. GuardTypes
  BY <1>1 DEF GuardTypes, G!Init, G!Idle, G!PlanId
<1>3. ASSUME NEW k \in G!Kind
      PROVE  /\ G!Allowed(account, k) <= peak[k]
             /\ used[k] + Cardinality(LateOnes(k)) <= peak[k] + Cardinality(Work) - 1
  <2>1. G!Allowed(account, k) <= peak[k]
    BY <1>1 DEF G!Init, G!Allowed, G!WorkspacePlan
  <2>2. LateOnes(k) = {}
    BY DEF LateOnes, Late, G!Init, G!Idle, G!Kind
  <2>3. used[k] = 0 /\ peak[k] \in Nat
    BY <1>1 DEF G!Init
  <2>4. Cardinality(Work) \in Nat /\ Cardinality(Work) > 0
    BY LateOnesAreFew
  <2> QED BY <2>1, <2>2, <2>3, <2>4, FS_EmptySet
<1> QED BY <1>2, <1>3 DEF GuardInv

\* A step that moves neither use nor peak, and makes nobody late.
LEMMA NobodyLater ==
  ASSUME GuardAssumption, GuardInv, UNCHANGED <<account, used, peak>>, GuardTypes',
         \A k \in G!Kind : LateOnes(k)' \in SUBSET LateOnes(k)
  PROVE  GuardInv'
<1>1. ASSUME NEW k \in G!Kind
      PROVE  /\ G!Allowed(account', k) <= peak'[k]
             /\ used'[k] + Cardinality(LateOnes(k)') <= peak'[k] + Cardinality(Work) - 1
  <2>1. /\ Cardinality(LateOnes(k)') \in Nat /\ Cardinality(LateOnes(k)) \in Nat
        /\ Cardinality(Work) \in Nat
        /\ Cardinality(LateOnes(k)') <= Cardinality(LateOnes(k))
    <3>1. LateOnes(k) \in SUBSET Work /\ LateOnes(k)' \in SUBSET LateOnes(k)
      BY DEF LateOnes
    <3>2. \A S : S \in SUBSET LateOnes(k) =>
            /\ Cardinality(S) \in Nat /\ Cardinality(LateOnes(k)) \in Nat
            /\ Cardinality(Work) \in Nat /\ Cardinality(S) <= Cardinality(LateOnes(k))
      BY <3>1, LateOnesAreFew
    <3> QED BY <3>1, <3>2
  <2>2. used[k] \in Nat /\ peak[k] \in Nat
    BY DEF GuardInv, GuardTypes
  <2>3. used[k] + Cardinality(LateOnes(k)) <= peak[k] + Cardinality(Work) - 1
    BY DEF GuardInv
  <2>4. G!Allowed(account, k) <= peak[k]
    BY DEF GuardInv
  <2> QED BY <2>1, <2>2, <2>3, <2>4
<1>2. \A k \in G!Kind : G!Allowed(account, k)' = G!Allowed(account', k)
  BY DEF G!Allowed
<1> QED BY <1>1 DEF GuardInv, G!Allowed, G!WorkspacePlan

LEMMA ReadPlanKeeps ==
  ASSUME GuardAssumption, GuardInv, NEW w \in Work, NEW k \in G!Kind, G!ReadPlan(w, k)
  PROVE  GuardInv'
<1>1. /\ work[w] = G!Idle
      /\ work' = [work EXCEPT ![w] = [kind |-> k, pc |-> "plan",
                                      plan |-> G!WorkspacePlan(account), limit |-> 0]]
      /\ UNCHANGED <<account, used, peak>>
  BY DEF G!ReadPlan
<1>2. /\ G!WorkspacePlan(account) \in G!PlanId
      /\ G!Raw(G!WorkspacePlan(account), k) <= G!Allowed(account, k)
      /\ G!Allowed(account, k) \in Nat /\ G!Allowed(account, k) <= peak[k]
  BY AllowedIsNat DEF GuardInv, GuardTypes
<1>3. G!Raw(G!WorkspacePlan(account), k) \in Int /\ peak[k] \in Nat
  BY <1>2, RawIsNat, BoundlessIsNat DEF GuardInv, GuardTypes
<1>4. GuardTypes'
  BY <1>1, <1>2 DEF GuardInv, GuardTypes
<1>5. \A m \in G!Kind : LateOnes(m)' \in SUBSET LateOnes(m)
  <2> SUFFICES ASSUME NEW m \in G!Kind, NEW v \in Work, Late(v, m)' PROVE Late(v, m)
    BY DEF LateOnes
  <2>1. CASE v = w
    <3>1. work'[v].kind = k /\ work'[v].pc = "plan" /\ work'[v].plan = G!WorkspacePlan(account)
      BY <1>1, <2>1 DEF GuardInv, GuardTypes
    <3>2. m = k /\ G!Raw(G!WorkspacePlan(account), k) > peak[k]
      BY <1>1, <3>1 DEF Late, G!Raw
    <3> QED BY <1>2, <1>3, <3>2
  <2>2. CASE v # w
    <3>1. work'[v] = work[v]
      BY <1>1, <2>2 DEF GuardInv, GuardTypes
    <3> QED BY <1>1, <3>1 DEF Late, G!Raw
  <2> QED BY <2>1, <2>2
<1> QED BY <1>1, <1>4, <1>5, NobodyLater

LEMMA ReadKeysKeeps ==
  ASSUME GuardAssumption, GuardInv, NEW w \in Work, G!ReadKeys(w)
  PROVE  GuardInv'
<1> DEFINE k == work[w].kind
           l == G!LimitOf(work[w].plan, k, account.byok)
<1>1. /\ work[w].pc = "plan"
      /\ work' = [work EXCEPT ![w].pc = "limit", ![w].limit = l]
      /\ UNCHANGED <<account, used, peak>>
  BY DEF G!ReadKeys
<1>2. k \in G!Kind /\ work[w].plan \in G!PlanId /\ peak[k] \in Nat
  BY <1>1 DEF GuardInv, GuardTypes
<1>3. G!Raw(work[w].plan, k) \in Nat /\ l \in Nat
  BY <1>2, RawIsNat, BoundlessIsNat DEF G!LimitOf
<1>4. l > peak[k] => G!Raw(work[w].plan, k) > peak[k]
  <2>1. account.byok /\ k = "post" => G!Boundless <= peak[k]
    BY <1>2 DEF GuardInv, G!Allowed
  <2>2. G!Boundless \in Nat
    BY BoundlessIsNat
  <2>3. CASE account.byok /\ k = "post"
    BY <2>1, <2>2, <2>3, <1>2 DEF G!LimitOf
  <2>4. CASE ~ (account.byok /\ k = "post")
    BY <2>4 DEF G!LimitOf
  <2> QED BY <2>3, <2>4
<1>5. /\ work[w].kind = k
      /\ work' = [work EXCEPT ![w] = [work[w] EXCEPT !.pc = "limit", !.limit = l]]
  BY <1>1 DEF GuardInv, GuardTypes
<1> HIDE DEF k, l
<1>6. /\ work'[w] = [kind |-> k, pc |-> "limit", plan |-> work[w].plan, limit |-> l]
      /\ \A v \in Work \ {w} : work'[v] = work[v]
  BY <1>5 DEF GuardInv, GuardTypes
<1>8. GuardTypes'
  BY <1>1, <1>2, <1>3, <1>5, <1>6 DEF GuardInv, GuardTypes
<1>7. \A m \in G!Kind : LateOnes(m)' \in SUBSET LateOnes(m)
  <2> SUFFICES ASSUME NEW m \in G!Kind, NEW v \in Work, Late(v, m)' PROVE Late(v, m)
    BY DEF LateOnes
  <2>1. CASE v = w
    <3>1. work'[v].kind = k /\ work'[v].pc = "limit" /\ work'[v].limit = l
      BY <1>6, <2>1
    <3>2. m = k /\ l > peak[k]
      BY <1>1, <3>1 DEF Late
    <3> QED BY <1>1, <1>4, <1>5, <2>1, <3>2 DEF Late
  <2>2. CASE v # w
    <3>1. peak' = peak
      BY DEF G!ReadKeys
    <3>2. work'[v] = work[v]
      BY <1>6, <2>2
    <3> QED BY <3>1, <3>2 DEF Late, G!Raw
  <2> QED BY <2>1, <2>2
<1> QED BY <1>1, <1>7, <1>8, NobodyLater

\* A work that passes has seen less than the peak used, unless it was late.
LEMMA ReadUseKeeps ==
  ASSUME GuardAssumption, GuardInv, NEW w \in Work, G!ReadUse(w)
  PROVE  GuardInv'
<1> DEFINE k == work[w].kind
<1>1. /\ work[w].pc = "limit"
      /\ work' = [work EXCEPT ![w] = IF used[k] < work[w].limit THEN [work[w] EXCEPT !.pc = "act"]
                                     ELSE G!Idle]
      /\ UNCHANGED <<account, used, peak>>
  BY DEF G!ReadUse, G!Passes
<1>2. k \in G!Kind /\ work[w].limit \in Nat /\ peak \in [G!Kind -> Nat] /\ used \in [G!Kind -> Nat]
  BY <1>1 DEF GuardInv, GuardTypes
<1>3. /\ work'[w] = IF used[k] < work[w].limit THEN [work[w] EXCEPT !.pc = "act"] ELSE G!Idle
      /\ \A v \in Work \ {w} : work'[v] = work[v]
  BY <1>1 DEF GuardInv, GuardTypes
<1>4. GuardTypes'
  BY <1>1, <1>2, <1>3 DEF GuardInv, GuardTypes, G!Idle, G!PlanId
<1>5. ASSUME NEW m \in G!Kind, NEW v \in Work, v # w PROVE Late(v, m)' <=> Late(v, m)
  BY <1>1, <1>3, <1>5 DEF Late, G!Raw
<1>6. CASE ~ (used[k] < work[w].limit) \/ work[w].limit > peak[k]
  <2>1. \A m \in G!Kind : Late(w, m)' => Late(w, m)
    <3> SUFFICES ASSUME NEW m \in G!Kind, Late(w, m)' PROVE Late(w, m)
      OBVIOUS
    <3>1. used[k] < work[w].limit
      BY <1>3 DEF Late, G!Idle, G!Kind
    <3>2. work'[w].kind = k
      BY <1>3, <3>1 DEF GuardInv, GuardTypes
    <3> QED BY <1>1, <1>6, <3>1, <3>2 DEF Late
  <2>2. \A m \in G!Kind : LateOnes(m)' \in SUBSET LateOnes(m)
    BY <1>5, <2>1 DEF LateOnes
  <2> QED BY <1>1, <1>4, <2>2, NobodyLater
<1>7. CASE used[k] < work[w].limit /\ work[w].limit <= peak[k]
  <2>1. ASSUME NEW m \in G!Kind
        PROVE  used[m] + Cardinality(LateOnes(m)') <= peak[m] + Cardinality(Work) - 1
    <3>0. /\ LateOnes(m) \in SUBSET Work /\ LateOnes(m)' \in SUBSET Work
          /\ used[m] \in Nat /\ peak[m] \in Nat
      BY <1>2 DEF LateOnes
    <3>1. \A S, T : T \in SUBSET Work /\ S \in SUBSET T =>
            /\ Cardinality(S) \in Nat /\ Cardinality(T) \in Nat /\ Cardinality(Work) \in Nat
            /\ Cardinality(S) <= Cardinality(T) /\ Cardinality(T) <= Cardinality(Work)
      BY LateOnesAreFew
    <3>2. CASE m = k
      <4>1. used[m] + 1 <= peak[m]
        BY <1>2, <1>7, <3>2
      <4>2. Cardinality(LateOnes(m)') <= Cardinality(Work) /\ Cardinality(LateOnes(m)') \in Nat
            /\ Cardinality(Work) \in Nat
        BY <3>0, <3>1
      <4> QED BY <3>0, <4>1, <4>2
    <3>3. CASE m # k
      <4>1. ~ Late(w, m)'
        BY <1>3, <1>7, <3>3 DEF Late, GuardInv, GuardTypes
      <4>2. LateOnes(m)' \in SUBSET LateOnes(m)
        BY <1>5, <4>1 DEF LateOnes
      <4>3. /\ Cardinality(LateOnes(m)') <= Cardinality(LateOnes(m))
            /\ Cardinality(LateOnes(m)') \in Nat /\ Cardinality(LateOnes(m)) \in Nat
            /\ Cardinality(Work) \in Nat
        BY <3>0, <3>1, <4>2
      <4>4. used[m] + Cardinality(LateOnes(m)) <= peak[m] + Cardinality(Work) - 1
        BY DEF GuardInv
      <4> QED BY <3>0, <4>3, <4>4
    <3> QED BY <3>2, <3>3
  <2> QED BY <1>1, <1>4, <2>1 DEF GuardInv, G!Allowed, G!WorkspacePlan, G!Raw
<1>8. used[k] \in Nat /\ peak[k] \in Nat
  BY <1>2
<1> QED BY <1>2, <1>6, <1>7, <1>8

\* What is used late was counted as late.
LEMMA UseKeeps ==
  ASSUME GuardAssumption, GuardInv, NEW w \in Work, G!Use(w)
  PROVE  GuardInv'
<1> DEFINE k == work[w].kind
<1>1. /\ work[w].pc = "act"
      /\ used' = [used EXCEPT ![k] = used[k] + 1]
      /\ work' = [work EXCEPT ![w] = G!Idle]
      /\ UNCHANGED <<account, peak>>
  BY DEF G!Use
<1>2. k \in G!Kind /\ peak \in [G!Kind -> Nat] /\ used \in [G!Kind -> Nat]
  BY <1>1 DEF GuardInv, GuardTypes
<1>3. work'[w] = G!Idle /\ \A v \in Work \ {w} : work'[v] = work[v]
  BY <1>1 DEF GuardInv, GuardTypes
<1>4. GuardTypes'
  BY <1>1, <1>2, <1>3 DEF GuardInv, GuardTypes, G!Idle, G!PlanId
<1>5. ASSUME NEW m \in G!Kind PROVE LateOnes(m)' = LateOnes(m) \ {w}
  <2>1. ~ Late(w, m)'
    BY <1>3 DEF Late, G!Idle, G!Kind
  <2>2. \A v \in Work \ {w} : Late(v, m)' <=> Late(v, m)
    BY <1>1, <1>3 DEF Late, G!Raw
  <2> QED BY <2>1, <2>2 DEF LateOnes
<1>6. ASSUME NEW m \in G!Kind
      PROVE  used'[m] + Cardinality(LateOnes(m)') <= peak'[m] + Cardinality(Work) - 1
  <2>1. /\ IsFiniteSet(LateOnes(m)) /\ Cardinality(LateOnes(m)) \in Nat /\ Cardinality(Work) \in Nat
        /\ used[m] + Cardinality(LateOnes(m)) <= peak[m] + Cardinality(Work) - 1
        /\ used[m] \in Nat /\ peak[m] \in Nat
    <3>1. LateOnes(m) \in SUBSET Work
      BY DEF LateOnes
    <3>2. IsFiniteSet(LateOnes(m)) /\ Cardinality(LateOnes(m)) \in Nat /\ Cardinality(Work) \in Nat
      BY <3>1, LateOnesAreFew
    <3> QED BY <1>2, <3>2 DEF GuardInv
  <2>2. Cardinality(LateOnes(m) \ {w}) =
          IF w \in LateOnes(m) THEN Cardinality(LateOnes(m)) - 1 ELSE Cardinality(LateOnes(m))
    BY <2>1, FS_RemoveElement
  <2>3. m = k <=> w \in LateOnes(m)
    BY <1>1 DEF LateOnes, Late
  <2>4. used'[m] = IF m = k THEN used[m] + 1 ELSE used[m]
    BY <1>1, <1>2
  <2> QED BY <1>1, <1>5, <2>1, <2>2, <2>3, <2>4
<1> QED BY <1>1, <1>4, <1>6 DEF GuardInv, G!Allowed, G!WorkspacePlan, G!Raw

LEMMA GiveUpKeeps ==
  ASSUME GuardAssumption, GuardInv, NEW w \in Work, G!GiveUp(w)
  PROVE  GuardInv'
<1>1. work' = [work EXCEPT ![w] = G!Idle] /\ UNCHANGED <<account, used, peak>>
  BY DEF G!GiveUp
<1>2. work'[w] = G!Idle /\ \A v \in Work \ {w} : work'[v] = work[v]
  BY <1>1 DEF GuardInv, GuardTypes
<1>3. GuardTypes'
  BY <1>1, <1>2 DEF GuardInv, GuardTypes, G!Idle, G!PlanId
<1>4. ASSUME NEW m \in G!Kind PROVE LateOnes(m)' \in SUBSET LateOnes(m)
  <2>1. ~ Late(w, m)'
    BY <1>2 DEF Late, G!Idle, G!Kind
  <2>2. \A v \in Work \ {w} : Late(v, m)' => Late(v, m)
    BY <1>1, <1>2 DEF Late, G!Raw
  <2> QED BY <2>1, <2>2 DEF LateOnes
<1> QED BY <1>1, <1>3, <1>4, NobodyLater

\* The account changes: the peak follows what is allowed, and nobody is later.
LEMMA AccountKeeps ==
  ASSUME GuardAssumption, GuardInv,
         NEW a \in [plan : {"free", "starter"}, status : {"active", "canceled"},
                    bypass : BOOLEAN, byok : BOOLEAN],
         G!Now(a)
  PROVE  GuardInv'
<1>1. /\ account' = a
      /\ peak' = [k \in G!Kind |-> G!Greatest(peak[k], G!Allowed(a, k))]
      /\ UNCHANGED <<used, work>>
  BY DEF G!Now
<1>2. ASSUME NEW k \in G!Kind
      PROVE  /\ peak'[k] \in Nat /\ peak[k] \in Nat
             /\ peak[k] <= peak'[k] /\ G!Allowed(a, k) <= peak'[k]
  <2>1. G!Allowed(a, k) \in Nat /\ peak[k] \in Nat
    BY AllowedIsNat DEF GuardInv, GuardTypes
  <2>2. peak'[k] = IF peak[k] > G!Allowed(a, k) THEN peak[k] ELSE G!Allowed(a, k)
    BY <1>1 DEF G!Greatest
  <2> QED BY <2>1, <2>2
<1>3. GuardTypes'
  BY <1>1, <1>2 DEF GuardInv, GuardTypes
<1>4. ASSUME NEW k \in G!Kind
      PROVE  used'[k] + Cardinality(LateOnes(k)') <= peak'[k] + Cardinality(Work) - 1
  <2>1. LateOnes(k)' \in SUBSET LateOnes(k) /\ LateOnes(k) \in SUBSET Work
    <3> SUFFICES ASSUME NEW v \in Work, Late(v, k)' PROVE Late(v, k)
      BY DEF LateOnes
    <3>1. work'[v] = work[v]
      BY <1>1
    <3>2. CASE work[v].pc = "limit"
      <4>1. work[v].limit > peak'[k] /\ work[v].limit \in Nat /\ work[v].kind = k
        BY <3>1, <3>2 DEF Late, GuardInv, GuardTypes
      <4>2. work[v].limit > peak[k]
        BY <1>2, <4>1
      <4> QED BY <3>2, <4>1, <4>2 DEF Late
    <3>3. CASE work[v].pc = "plan"
      <4>1. G!Raw(work[v].plan, k) > peak'[k] /\ work[v].plan \in G!PlanId /\ work[v].kind = k
        BY <3>1, <3>3 DEF Late, GuardInv, GuardTypes, G!Raw
      <4>2. G!Raw(work[v].plan, k) \in Int
        BY <4>1, RawIsNat, BoundlessIsNat
      <4>3. G!Raw(work[v].plan, k) > peak[k]
        BY <1>2, <4>1, <4>2
      <4> QED BY <3>3, <4>1, <4>3 DEF Late
    <3> QED BY <3>1, <3>2, <3>3 DEF Late
  <2>2. \A S : S \in SUBSET LateOnes(k) =>
          /\ Cardinality(S) \in Nat /\ Cardinality(LateOnes(k)) \in Nat
          /\ Cardinality(Work) \in Nat /\ Cardinality(S) <= Cardinality(LateOnes(k))
    BY <2>1, LateOnesAreFew
  <2>3. used[k] + Cardinality(LateOnes(k)) <= peak[k] + Cardinality(Work) - 1 /\ used[k] \in Nat
    BY DEF GuardInv, GuardTypes
  <2>4. /\ Cardinality(LateOnes(k)') \in Nat /\ Cardinality(LateOnes(k)) \in Nat
        /\ Cardinality(Work) \in Nat /\ Cardinality(LateOnes(k)') <= Cardinality(LateOnes(k))
    BY <2>1, <2>2
  <2> QED BY <1>1, <1>2, <2>3, <2>4
<1> QED BY <1>1, <1>2, <1>3, <1>4 DEF GuardInv, G!Allowed, G!WorkspacePlan, G!Raw

\* A month begins: nothing is used, and at least one post is allowed.
LEMMA NewMonthKeeps ==
  ASSUME GuardAssumption, GuardInv, G!NewMonth
  PROVE  GuardInv'
<1>1. /\ used' = [used EXCEPT !["post"] = 0]
      /\ peak' = [peak EXCEPT !["post"] = G!Allowed(account, "post")]
      /\ UNCHANGED <<account, work>>
  BY DEF G!NewMonth
<1>2. used \in [G!Kind -> Nat] /\ peak \in [G!Kind -> Nat] /\ "post" \in G!Kind
  BY DEF GuardInv, GuardTypes, G!Kind
<1>3. G!Allowed(account, "post") \in Nat /\ G!Allowed(account, "post") > 0
  BY <1>2, AllowedIsNat DEF GuardInv, GuardTypes
<1>4. GuardTypes'
  BY <1>1, <1>2, <1>3 DEF GuardInv, GuardTypes
<1>5. ASSUME NEW k \in G!Kind
      PROVE  /\ G!Allowed(account, k) <= peak'[k]
             /\ used'[k] + Cardinality(LateOnes(k)') <= peak'[k] + Cardinality(Work) - 1
  <2>1. CASE k = "post"
    <3>1. used'[k] = 0 /\ peak'[k] = G!Allowed(account, "post")
      BY <1>1, <1>2, <2>1
    <3>2. LateOnes(k)' \in SUBSET Work
      BY DEF LateOnes
    <3>3. \A S : S \in SUBSET Work =>
            Cardinality(S) \in Nat /\ Cardinality(Work) \in Nat /\ Cardinality(S) <= Cardinality(Work)
      BY LateOnesAreFew
    <3>4. Cardinality(LateOnes(k)') \in Nat /\ Cardinality(Work) \in Nat
          /\ Cardinality(LateOnes(k)') <= Cardinality(Work)
      BY <3>2, <3>3
    <3> QED BY <1>3, <2>1, <3>1, <3>4
  <2>2. CASE k # "post"
    <3>1. used'[k] = used[k] /\ peak'[k] = peak[k]
      BY <1>1, <1>2, <2>2
    <3>2. \A v \in Work : Late(v, k)' <=> Late(v, k)
      BY <1>1, <3>1 DEF Late, G!Raw
    <3>3. LateOnes(k)' = LateOnes(k)
      BY <3>2 DEF LateOnes
    <3> QED BY <3>1, <3>3 DEF GuardInv
  <2> QED BY <2>1, <2>2
<1> QED BY <1>1, <1>4, <1>5 DEF GuardInv, G!Allowed, G!WorkspacePlan, G!Raw

LEMMA RemoveKeeps ==
  ASSUME GuardAssumption, GuardInv, NEW k \in G!Kind, G!Remove(k)
  PROVE  GuardInv'
<1>1. used[k] > 0 /\ used' = [used EXCEPT ![k] = used[k] - 1] /\ UNCHANGED <<account, work, peak>>
  BY DEF G!Remove
<1>2. used \in [G!Kind -> Nat]
  BY DEF GuardInv, GuardTypes
<1>3. GuardTypes'
  BY <1>1, <1>2 DEF GuardInv, GuardTypes
<1>4. ASSUME NEW m \in G!Kind
      PROVE  used'[m] + Cardinality(LateOnes(m)') <= peak'[m] + Cardinality(Work) - 1
  <2>1. used'[m] <= used[m] /\ used'[m] \in Nat /\ used[m] \in Nat /\ peak[m] \in Nat
    BY <1>1, <1>2 DEF GuardInv, GuardTypes
  <2>2. \A v \in Work : Late(v, m)' <=> Late(v, m)
    BY <1>1 DEF Late, G!Raw
  <2>3. LateOnes(m)' = LateOnes(m) /\ LateOnes(m) \in SUBSET Work
    BY <2>2 DEF LateOnes
  <2>4. Cardinality(LateOnes(m)) \in Nat /\ Cardinality(Work) \in Nat
    BY <2>3, LateOnesAreFew
  <2>5. used[m] + Cardinality(LateOnes(m)) <= peak[m] + Cardinality(Work) - 1
    BY DEF GuardInv
  <2> QED BY <1>1, <2>1, <2>3, <2>4, <2>5
<1> QED BY <1>1, <1>3, <1>4 DEF GuardInv, G!Allowed, G!WorkspacePlan, G!Raw

LEMMA NextKeepsGuard == GuardAssumption /\ GuardInv /\ [G!Next]_(G!vars) => GuardInv'
<1> SUFFICES ASSUME GuardAssumption, GuardInv, [G!Next]_(G!vars) PROVE GuardInv'
  OBVIOUS
<1> DEFINE Accounts == [plan : {"free", "starter"}, status : {"active", "canceled"},
                        bypass : BOOLEAN, byok : BOOLEAN]
<1>0. account \in Accounts
  BY DEF GuardInv, GuardTypes
<1>1. CASE \E p \in {"free", "starter"}, s \in {"active", "canceled"} : G!Subscribe(p, s)
  <2>1. PICK p \in {"free", "starter"}, s \in {"active", "canceled"} : G!Subscribe(p, s)
    BY <1>1
  <2>2. [account EXCEPT !.plan = p, !.status = s] \in Accounts
    BY <1>0
  <2> QED BY <2>1, <2>2, AccountKeeps DEF G!Subscribe
<1>2. CASE G!Exempt
  <2>1. [account EXCEPT !.bypass = TRUE] \in Accounts
    BY <1>0
  <2> QED BY <1>2, <2>1, AccountKeeps DEF G!Exempt
<1>3. CASE G!ToggleOwnKey
  <2>1. [account EXCEPT !.byok = ~ account.byok] \in Accounts
    BY <1>0
  <2> QED BY <1>3, <2>1, AccountKeeps DEF G!ToggleOwnKey
<1>4. CASE G!NewMonth
  BY <1>4, NewMonthKeeps
<1>5. CASE \E w \in Work : \/ G!ReadKeys(w) \/ G!ReadUse(w) \/ G!Use(w) \/ G!GiveUp(w)
                           \/ \E k \in G!Kind : G!ReadPlan(w, k)
  BY <1>5, ReadKeysKeeps, ReadUseKeeps, UseKeeps, GiveUpKeeps, ReadPlanKeeps
<1>6. CASE \E k \in G!Kind : G!Remove(k)
  BY <1>6, RemoveKeeps
<1>7. CASE UNCHANGED G!vars
  <2>1. UNCHANGED <<account, used, work, peak>>
    BY <1>7 DEF G!vars
  <2> QED BY <2>1 DEF GuardInv, GuardTypes, LateOnes, Late, G!Allowed, G!WorkspacePlan, G!Raw
<1> QED BY <1>1, <1>2, <1>3, <1>4, <1>5, <1>6, <1>7 DEF G!Next

LEMMA GuardIsBounded == GuardAssumption /\ GuardInv => UseBounded
<1> SUFFICES ASSUME GuardAssumption, GuardInv, NEW k \in DOMAIN used
             PROVE  used[k] <= peak[k] + Cardinality(Work) - 1
  BY DEF UseBounded
<1>1. k \in G!Kind /\ used[k] \in Nat /\ peak[k] \in Nat
  BY DEF GuardInv, GuardTypes
<1>2. LateOnes(k) \in SUBSET Work
  BY DEF LateOnes
<1>3. Cardinality(LateOnes(k)) \in Nat /\ Cardinality(Work) \in Nat
  BY <1>2, LateOnesAreFew
<1>4. used[k] + Cardinality(LateOnes(k)) <= peak[k] + Cardinality(Work) - 1
  BY <1>1 DEF GuardInv
<1> QED BY <1>1, <1>3, <1>4

-----------------------------------------------------------------------------
(* The limiter                                                             *)

Count(k) == Len(granted[k])

LimiterTypes ==
  /\ time \in Nat
  /\ lRow \in [L!BucketName -> [hits : Nat, expires : Nat]]
  /\ try \in [Attempt -> [pc : {"idle", "prune", "take", "upsert"}, key : {0} \cup L!BucketName,
                          now : Nat, cause : BOOLEAN]]
  /\ \A a \in Attempt : try[a].pc # "idle" => try[a].key \in L!BucketName
  /\ granted \in [L!BucketName -> Seq(Nat)]

\* A statement waits for the row for one tick at most.
Waits == \A a \in Attempt : try[a].pc = "upsert" => try[a].now <= time /\ time <= try[a].now + 1

\* The row counts the last h of the n hits g that were let through, of a window
\* that ends at e.  Those it counts went through since the window opened, those
\* before no later than that, and those before a further limit of hits a window
\* earlier.  A row that was pruned, or never was, counts none.
Stands(n, g, h, e, max, t) ==
  /\ h <= max /\ h <= n
  /\ h > 0 =>
       /\ 0 <= e - Window /\ e - Window <= t
       /\ \A i \in 1 .. n :
            /\ g[i] <= e
            /\ i > n - h => e - Window <= g[i]
            /\ i <= n - h => g[i] <= e - Window
            /\ i <= n - h - max => g[i] <= e - Window - Window
  /\ h = 0 =>
       /\ e = 0
       /\ \A i \in 1 .. n : g[i] <= t - 1 /\ (i <= n - max => g[i] <= t - 1 - Window)

Windowed(k) ==
  Stands(Count(k), granted[k], lRow[k].hits, lRow[k].expires, MaxHits[k], time)

LimiterInv ==
  /\ LimiterTypes /\ Waits
  /\ \A k \in L!BucketName : Windowed(k)
  /\ BurstBounded /\ RefusedForCause

LEMMA BucketsAre ==
  ASSUME LimiterAssumption
  PROVE  /\ L!BucketName \in SUBSET Nat /\ 1 \in L!BucketName
         /\ MaxHits \in [L!BucketName -> Nat \ {0}] /\ Window \in Nat /\ Window > 0
<1>1. DOMAIN Bucket = 1 .. Len(Bucket) /\ Len(Bucket) \in Nat /\ Len(Bucket) > 0
  BY DEF LimiterAssumption
<1> QED BY <1>1 DEF LimiterAssumption, L!BucketName

LEMMA HitsAre ==
  ASSUME LimiterTypes, NEW k \in L!BucketName
  PROVE  /\ Count(k) \in Nat /\ DOMAIN granted[k] = 1 .. Count(k)
         /\ \A i \in 1 .. Count(k) : granted[k][i] \in Nat
BY LenProperties, ElementOfSeq DEF LimiterTypes, Count

LEMMA InitLimiter == LimiterAssumption /\ L!Init => LimiterInv
<1> SUFFICES ASSUME LimiterAssumption, L!Init PROVE LimiterInv
  OBVIOUS
<1>1. \A k \in L!BucketName : granted[k] = <<>> /\ Count(k) = 0 /\ DOMAIN granted[k] = {}
  BY DEF L!Init, Count
<1>2. LimiterTypes
  BY DEF LimiterTypes, L!Init, L!NoRow, L!Idle
<1>3. Waits
  BY DEF Waits, L!Init, L!Idle
<1>4. \A k \in L!BucketName : Windowed(k)
  BY <1>1, BucketsAre DEF Windowed, Stands, L!Init, L!NoRow
<1>5. BurstBounded
  BY <1>1, <1>2 DEF BurstBounded, LimiterTypes
<1>6. RefusedForCause
  BY DEF RefusedForCause, L!Init, L!Idle
<1> QED BY <1>2, <1>3, <1>4, <1>5, <1>6 DEF LimiterInv

\* A step that touches neither the rows nor what was let through.
LEMMA RowsKept ==
  ASSUME LimiterAssumption, LimiterInv, UNCHANGED <<lRow, granted>>,
         LimiterTypes', Waits', RefusedForCause', time <= time'
  PROVE  LimiterInv'
<1>1. \A k \in L!BucketName : Windowed(k)'
  <2> SUFFICES ASSUME NEW k \in L!BucketName PROVE Windowed(k)'
    OBVIOUS
  <2>1. /\ Count(k) \in Nat /\ \A i \in 1 .. Count(k) : granted[k][i] \in Nat
        /\ lRow[k].hits \in Nat /\ lRow[k].expires \in Nat
        /\ MaxHits[k] \in Nat /\ Window \in Nat /\ time \in Nat /\ time' \in Nat /\ Windowed(k)
    BY BucketsAre, HitsAre DEF LimiterInv, LimiterTypes
  <2>2. Count(k)' = Count(k)
    BY <2>1 DEF Count
  <2> QED BY <2>1, <2>2 DEF Windowed, Stands
<1> QED BY <1>1 DEF LimiterInv, BurstBounded

\* An attempt goes on to r.
LEMMA AttemptMoves ==
  ASSUME LimiterInv, NEW a \in Attempt,
         NEW r \in [pc : {"idle", "prune", "take", "upsert"}, key : {0} \cup L!BucketName,
                    now : Nat, cause : {TRUE}],
         r.pc # "idle" => r.key \in L!BucketName,
         r.pc = "upsert" => r.now = time,
         try' = [try EXCEPT ![a] = r], time' = time
  PROVE  /\ try' \in [Attempt -> [pc : {"idle", "prune", "take", "upsert"},
                                  key : {0} \cup L!BucketName, now : Nat, cause : BOOLEAN]]
         /\ \A b \in Attempt : try'[b].pc # "idle" => try'[b].key \in L!BucketName
         /\ time \in Nat /\ Waits' /\ RefusedForCause'
<1>1. try \in [Attempt -> [pc : {"idle", "prune", "take", "upsert"},
                           key : {0} \cup L!BucketName, now : Nat, cause : BOOLEAN]]
      /\ time \in Nat
  BY DEF LimiterInv, LimiterTypes
<1>2. r \in [pc : {"idle", "prune", "take", "upsert"}, key : {0} \cup L!BucketName,
             now : Nat, cause : BOOLEAN]
  OBVIOUS
<1>3. try'[a] = r /\ DOMAIN try' = Attempt /\ DOMAIN try = Attempt
      /\ \A b \in Attempt \ {a} : try'[b] = try[b]
  BY <1>1
<1>4. try' \in [Attempt -> [pc : {"idle", "prune", "take", "upsert"},
                            key : {0} \cup L!BucketName, now : Nat, cause : BOOLEAN]]
  BY <1>1, <1>2
<1>5. \A b \in Attempt : try'[b].pc # "idle" => try'[b].key \in L!BucketName
  BY <1>3 DEF LimiterInv, LimiterTypes
<1>6. Waits'
  BY <1>1, <1>3 DEF LimiterInv, Waits
<1>7. RefusedForCause'
  BY <1>3 DEF LimiterInv, RefusedForCause
<1> QED BY <1>1, <1>4, <1>5, <1>6, <1>7

LEMMA TickKeeps ==
  ASSUME LimiterAssumption, LimiterInv, L!Tick
  PROVE  LimiterInv'
<1>1. time' = time + 1 /\ UNCHANGED <<lRow, try, granted>> /\ time \in Nat
  BY DEF L!Tick, LimiterInv, LimiterTypes
<1>2. LimiterTypes'
  BY <1>1 DEF LimiterInv, LimiterTypes, Count
<1>3. Waits'
  BY <1>1 DEF L!Tick, LimiterInv, LimiterTypes, Waits
<1> QED BY <1>1, <1>2, <1>3, RowsKept DEF LimiterInv, RefusedForCause

LEMMA StartKeeps ==
  ASSUME LimiterAssumption, LimiterInv, NEW a \in Attempt, L!Start(a)
  PROVE  LimiterInv'
<1> DEFINE r == [L!Idle EXCEPT !.pc = "prune", !.key = 1]
<1>1. try' = [try EXCEPT ![a] = r] /\ UNCHANGED <<time, lRow, granted>>
  BY DEF L!Start
<1>2. 1 \in L!BucketName
  BY BucketsAre
<1>3. /\ r \in [pc : {"idle", "prune", "take", "upsert"}, key : {0} \cup L!BucketName,
                now : Nat, cause : {TRUE}]
      /\ r.pc = "prune" /\ r.key \in L!BucketName
  BY <1>2 DEF L!Idle
<1> HIDE DEF r
<1>4. /\ try' \in [Attempt -> [pc : {"idle", "prune", "take", "upsert"},
                                key : {0} \cup L!BucketName, now : Nat, cause : BOOLEAN]]
      /\ \A b \in Attempt : try'[b].pc # "idle" => try'[b].key \in L!BucketName
      /\ time \in Nat /\ Waits' /\ RefusedForCause'
  BY <1>1, <1>3, AttemptMoves
<1>5. LimiterTypes' /\ time <= time'
  BY <1>1, <1>4 DEF LimiterInv, LimiterTypes, Count
<1> QED BY <1>1, <1>4, <1>5, RowsKept

LEMMA TakeNowKeeps ==
  ASSUME LimiterAssumption, LimiterInv, NEW a \in Attempt, L!TakeNow(a)
  PROVE  LimiterInv'
<1> DEFINE r == [try[a] EXCEPT !.pc = "upsert", !.now = time]
<1>1. try' = [try EXCEPT ![a] = r] /\ UNCHANGED <<time, lRow, granted>>
  BY DEF L!TakeNow, LimiterInv, LimiterTypes
<1>2. r \in [pc : {"upsert"}, key : L!BucketName, now : {time}, cause : {TRUE}]
  <2>1. try[a] \in [pc : {"take"}, key : L!BucketName, now : Nat, cause : {TRUE}]
    BY DEF L!TakeNow, LimiterInv, LimiterTypes, RefusedForCause
  <2> QED BY <2>1
<1> HIDE DEF r
<1>3. r \in [pc : {"idle", "prune", "take", "upsert"}, key : {0} \cup L!BucketName,
             now : Nat, cause : {TRUE}]
      /\ r.pc = "upsert" /\ r.key \in L!BucketName /\ r.now = time
  BY <1>2 DEF LimiterInv, LimiterTypes
<1>4. /\ try' \in [Attempt -> [pc : {"idle", "prune", "take", "upsert"},
                                key : {0} \cup L!BucketName, now : Nat, cause : BOOLEAN]]
      /\ \A b \in Attempt : try'[b].pc # "idle" => try'[b].key \in L!BucketName
      /\ time \in Nat /\ Waits' /\ RefusedForCause'
  BY <1>1, <1>3, AttemptMoves
<1>5. LimiterTypes' /\ time <= time'
  BY <1>1, <1>4 DEF LimiterInv, LimiterTypes, Count
<1> QED BY <1>1, <1>4, <1>5, RowsKept

\* A row is pruned after its window, so every now() that may still be used on
\* it is no earlier than the end of that window.
LEMMA PruneKeeps ==
  ASSUME LimiterAssumption, LimiterInv, NEW a \in Attempt, L!Prune(a)
  PROVE  LimiterInv'
<1>0. /\ try[a].pc = "prune" /\ time \in Nat
      /\ try' = [try EXCEPT ![a].pc = "take"]
      /\ UNCHANGED <<time, granted>>
  BY DEF L!Prune, LimiterInv, LimiterTypes
<1>1. PICK gone \in SUBSET {k \in L!BucketName : lRow[k].expires < time} :
        lRow' = [k \in L!BucketName |-> IF k \in gone THEN [hits |-> 0, expires |-> 0] ELSE lRow[k]]
  BY DEF L!Prune, L!NoRow
<1>2. LimiterTypes'
  <2>1. lRow' \in [L!BucketName -> [hits : Nat, expires : Nat]]
    BY <1>1 DEF LimiterInv, LimiterTypes
  <2> QED BY <1>0, <2>1 DEF LimiterInv, LimiterTypes, Count
<1>3. Waits' /\ RefusedForCause'
  BY <1>0 DEF LimiterInv, LimiterTypes, Waits, RefusedForCause
<1>4. ASSUME NEW k \in L!BucketName PROVE Windowed(k)'
  <2>1. /\ Count(k) \in Nat /\ \A i \in 1 .. Count(k) : granted[k][i] \in Nat
        /\ lRow[k].hits \in Nat /\ lRow[k].expires \in Nat
        /\ MaxHits[k] \in Nat /\ Window \in Nat /\ Window > 0 /\ time \in Nat /\ Windowed(k)
    BY BucketsAre, HitsAre DEF LimiterInv, LimiterTypes
  <2>2. Count(k)' = Count(k) /\ granted'[k] = granted[k] /\ time' = time
    BY <1>0 DEF Count
  <2>3. CASE k \notin gone
    <3>1. lRow'[k] = lRow[k]
      BY <1>1, <2>3
    <3> QED BY <2>1, <2>2, <3>1 DEF Windowed, Stands
  <2>4. CASE k \in gone
    <3>1. lRow'[k].hits = 0 /\ lRow'[k].expires = 0 /\ lRow[k].expires < time
      BY <1>1, <2>4
    <3>2. ASSUME NEW i \in 1 .. Count(k)
          PROVE  /\ granted[k][i] <= time - 1
                 /\ i <= Count(k) - MaxHits[k] => granted[k][i] <= time - 1 - Window
      <4>1. granted[k][i] \in Nat
        BY <2>1
      <4>2. CASE lRow[k].hits = 0
        BY <2>1, <4>2 DEF Windowed, Stands
      <4>3. CASE lRow[k].hits > 0
        <5>1. /\ granted[k][i] <= lRow[k].expires
              /\ i <= Count(k) - lRow[k].hits => granted[k][i] <= lRow[k].expires - Window
              /\ lRow[k].hits <= MaxHits[k]
          BY <2>1, <4>3 DEF Windowed, Stands
        <5>2. i \in Int /\ (i <= Count(k) - MaxHits[k] => i <= Count(k) - lRow[k].hits)
          BY <2>1, <5>1
        <5> QED BY <2>1, <3>1, <4>1, <5>1, <5>2
      <4> QED BY <2>1, <4>2, <4>3
    <3> QED BY <2>1, <2>2, <3>1, <3>2 DEF Windowed, Stands
  <2> QED BY <2>3, <2>4
<1>5. BurstBounded'
  BY <1>0 DEF LimiterInv, BurstBounded
<1> QED BY <1>2, <1>3, <1>4, <1>5 DEF LimiterInv

\* One more hit is let through: it is the last, a window after the one that is
\* two limits before it.
LEMMA GrantKeeps ==
  ASSUME LimiterAssumption, LimiterInv, NEW a \in Attempt, L!Grant(a)
  PROVE  LimiterInv'
<1>1. try[a].key \in L!BucketName /\ try[a].pc = "upsert"
  BY DEF L!Grant, LimiterInv, LimiterTypes
<1> SUFFICES ASSUME NEW k \in L!BucketName, k = try[a].key
             PROVE  LimiterInv'
  BY <1>1
<1> DEFINE now == try[a].now
           max == MaxHits[k]
           n == Count(k)
           g == granted[k]
           h == lRow[k].hits
           e == lRow[k].expires
           more == Append(g, time)
           rest == IF k + 1 \in L!BucketName THEN [try[a] EXCEPT !.pc = "prune", !.key = k + 1] ELSE L!Idle
<1>2. /\ e <= now \/ h < max
      /\ lRow' = [lRow EXCEPT ![k] = L!Hit(k, now)]
      /\ granted' = [granted EXCEPT ![k] = more]
      /\ try' = [try EXCEPT ![a] = rest]
      /\ time' = time
  BY DEF L!Grant, L!MayHit, L!Over
<1>3. time \in Nat /\ now \in Nat /\ now <= time /\ time <= now + 1
  BY <1>1 DEF LimiterInv, LimiterTypes, Waits
<1>4. /\ n \in Nat /\ g \in Seq(Nat) /\ h \in Nat /\ e \in Nat
      /\ DOMAIN g = 1 .. n /\ \A i \in 1 .. n : g[i] \in Nat
      /\ max \in Nat /\ max > 0 /\ Window \in Nat /\ Window > 0
  <2>1. n \in Nat /\ DOMAIN g = 1 .. n /\ \A i \in 1 .. n : g[i] \in Nat
    BY HitsAre DEF LimiterInv
  <2>2. g \in Seq(Nat) /\ h \in Nat /\ e \in Nat
    BY DEF LimiterInv, LimiterTypes
  <2>3. max \in Nat /\ max > 0 /\ Window \in Nat /\ Window > 0
    BY BucketsAre
  <2> QED BY <2>1, <2>2, <2>3
<1>5. Stands(n, g, h, e, max, time)
  BY DEF LimiterInv, Windowed
\* What becomes of them.
<1>6. /\ lRow'[k] = IF e <= now THEN [hits |-> 1, expires |-> now + Window]
                    ELSE [hits |-> h + 1, expires |-> e]
      /\ \A m \in L!BucketName \ {k} : lRow'[m] = lRow[m]
      /\ lRow' \in [L!BucketName -> [hits : Nat, expires : Nat]]
  <2>1. lRow \in [L!BucketName -> [hits : Nat, expires : Nat]]
    BY DEF LimiterInv, LimiterTypes
  <2>2. L!Hit(k, now) = IF e <= now THEN [hits |-> 1, expires |-> now + Window]
                        ELSE [hits |-> h + 1, expires |-> e]
    BY <2>1 DEF L!Hit, L!Over
  <2>3. L!Hit(k, now) \in [hits : Nat, expires : Nat]
    <3>1. 1 \in Nat /\ now + Window \in Nat /\ h + 1 \in Nat /\ e \in Nat
      BY <1>3, <1>4
    <3> HIDE DEF now, h, e
    <3> QED BY <2>2, <3>1
  <2> QED BY <1>2, <2>1, <2>2, <2>3
<1>7. /\ granted'[k] = more /\ Count(k)' = n + 1
      /\ granted' \in [L!BucketName -> Seq(Nat)]
      /\ \A m \in L!BucketName \ {k} : granted'[m] = granted[m] /\ Count(m)' = Count(m)
      /\ \A i \in 1 .. n : more[i] = g[i]
      /\ more[n + 1] = time /\ DOMAIN more = 1 .. n + 1
  <2>1. granted \in [L!BucketName -> Seq(Nat)]
    BY DEF LimiterInv, LimiterTypes
  <2>2. /\ more \in Seq(Nat) /\ Len(more) = n + 1
        /\ \A i \in 1 .. n : more[i] = g[i]
        /\ more[n + 1] = time
    BY <1>3, <1>4, AppendProperties DEF Count
  <2>3. DOMAIN more = 1 .. n + 1
    BY <2>2, LenProperties
  <2> HIDE DEF more
  <2>4. granted'[k] = more /\ granted' \in [L!BucketName -> Seq(Nat)]
        /\ \A m \in L!BucketName \ {k} : granted'[m] = granted[m]
    BY <1>2, <2>1, <2>2
  <2>5. Count(k)' = n + 1
    BY <2>2, <2>4 DEF Count
  <2>6. \A m \in L!BucketName \ {k} : Count(m)' = Count(m)
    BY <2>4 DEF Count
  <2> QED BY <2>2, <2>3, <2>4, <2>5, <2>6
<1>8. /\ try' \in [Attempt -> [pc : {"idle", "prune", "take", "upsert"}, key : {0} \cup L!BucketName,
                               now : Nat, cause : BOOLEAN]]
      /\ try'[a].pc \in {"idle", "prune"} /\ try'[a].cause
      /\ try'[a].pc = "prune" => try'[a].key \in L!BucketName
      /\ \A b \in Attempt \ {a} : try'[b] = try[b]
  <2>1. try \in [Attempt -> [pc : {"idle", "prune", "take", "upsert"}, key : {0} \cup L!BucketName,
                             now : Nat, cause : BOOLEAN]]
        /\ try[a].cause
    BY DEF LimiterInv, LimiterTypes, RefusedForCause
  <2>2. rest \in [pc : {"idle", "prune"}, key : {0} \cup L!BucketName, now : Nat, cause : {TRUE}]
        /\ (rest.pc = "prune" => rest.key \in L!BucketName)
    <3>1. CASE k + 1 \in L!BucketName
      <4>1. try[a] \in [pc : {"upsert"}, key : L!BucketName, now : Nat, cause : {TRUE}]
        BY <1>1, <2>1
      <4>2. [try[a] EXCEPT !.pc = "prune", !.key = k + 1]
              \in [pc : {"prune"}, key : L!BucketName, now : Nat, cause : {TRUE}]
        BY <3>1, <4>1
      <4> QED BY <3>1, <4>2
    <3>2. CASE k + 1 \notin L!BucketName
      BY <3>2 DEF L!Idle
    <3> QED BY <3>1, <3>2
  <2> HIDE DEF rest
  <2> QED BY <1>2, <2>1, <2>2
<1>9. LimiterTypes'
  <2>1. \A b \in Attempt : try'[b].pc # "idle" => try'[b].key \in L!BucketName
    BY <1>8 DEF LimiterInv, LimiterTypes
  <2> QED BY <1>2, <1>3, <1>6, <1>7, <1>8, <2>1 DEF LimiterTypes
<1>10. Waits' /\ RefusedForCause'
  BY <1>2, <1>8 DEF LimiterInv, LimiterTypes, Waits, RefusedForCause
<1> HIDE DEF now, max, n, g, h, e, more
<1>11. Windowed(k)' /\ \A i \in 1 .. n : n + 1 = i + 2 * max => time >= g[i] + Window
  <2>0. Windowed(k)' = Stands(n + 1, more, lRow'[k].hits, lRow'[k].expires, max, time)
    BY <1>2, <1>7 DEF Windowed, max
  <2>1. CASE e <= now
    <3>1. ASSUME NEW i \in 1 .. n
          PROVE  g[i] <= now /\ (i <= n - max => g[i] <= now - Window)
      <4>0. g[i] \in Nat /\ i \in Nat
        BY <1>4
      <4>1. CASE h = 0
        <5>1. g[i] <= time - 1 /\ (i <= n - max => g[i] <= time - 1 - Window)
          BY <1>5, <4>1 DEF Stands
        <5> QED BY <1>3, <1>4, <4>0, <5>1
      <4>2. CASE h > 0
        <5>1. g[i] <= e /\ (i <= n - h => g[i] <= e - Window) /\ h <= max
          BY <1>5, <4>2 DEF Stands
        <5> QED BY <1>3, <1>4, <2>1, <4>0, <5>1
      <4> QED BY <1>4, <4>1, <4>2
    <3>2. lRow'[k].hits = 1 /\ lRow'[k].expires = now + Window
      BY <1>6, <2>1
    <3>4. ASSUME NEW i \in 1 .. n + 1
          PROVE  /\ more[i] <= now + Window
                 /\ i > n + 1 - 1 => now + Window - Window <= more[i]
                 /\ i <= n + 1 - 1 => more[i] <= now + Window - Window
                 /\ i <= n + 1 - 1 - max => more[i] <= now + Window - Window - Window
      <4>1. CASE i = n + 1
        BY <1>3, <1>4, <1>7, <4>1
      <4>2. CASE i \in 1 .. n
        <5>1. more[i] = g[i] /\ g[i] \in Nat
          BY <1>4, <1>7, <4>2
        <5> QED BY <1>3, <1>4, <3>1, <4>2, <5>1
      <4> QED BY <1>4, <4>1, <4>2
    <3>5. Windowed(k)'
      <4>1. 0 <= now + Window - Window /\ now + Window - Window <= time
            /\ 1 <= max /\ 1 <= n + 1
        BY <1>3, <1>4
      <4>2. Stands(n + 1, more, 1, now + Window, max, time)
        BY <1>3, <1>4, <3>4, <4>1 DEF Stands
      <4> QED BY <2>0, <3>2, <4>2
    <3>6. ASSUME NEW i \in 1 .. n, n + 1 = i + 2 * max PROVE time >= g[i] + Window
      <4>1. i <= n - max /\ g[i] \in Nat
        BY <1>4, <3>6
      <4> QED BY <1>3, <1>4, <3>1, <4>1
    <3> QED BY <3>5, <3>6
  <2>2. CASE ~ (e <= now)
    <3>1. h < max /\ h > 0 /\ now + 1 <= e
      BY <1>2, <1>3, <1>4, <1>5, <2>2 DEF Stands
    <3>2. lRow'[k].hits = h + 1 /\ lRow'[k].expires = e
      BY <1>6, <2>2
    <3>4. ASSUME NEW i \in 1 .. n + 1
          PROVE  /\ more[i] <= e
                 /\ i > n + 1 - (h + 1) => e - Window <= more[i]
                 /\ i <= n + 1 - (h + 1) => more[i] <= e - Window
                 /\ i <= n + 1 - (h + 1) - max => more[i] <= e - Window - Window
      <4>1. CASE i = n + 1
        BY <1>3, <1>4, <1>5, <1>7, <3>1, <4>1 DEF Stands
      <4>2. CASE i \in 1 .. n
        <5>1. more[i] = g[i] /\ g[i] \in Nat
          BY <1>4, <1>7, <4>2
        <5>2. /\ g[i] <= e
              /\ i > n - h => e - Window <= g[i]
              /\ i <= n - h => g[i] <= e - Window
              /\ i <= n - h - max => g[i] <= e - Window - Window
          BY <1>5, <3>1, <4>2 DEF Stands
        <5> QED BY <1>4, <4>2, <5>1, <5>2
      <4> QED BY <1>4, <4>1, <4>2
    <3>5. 0 <= e - Window /\ e - Window <= time
      BY <1>5, <3>1 DEF Stands
    <3>6. h + 1 <= max /\ h + 1 <= n + 1 /\ h + 1 # 0
      BY <1>4, <1>5, <3>1 DEF Stands
    <3>7. Windowed(k)'
      <4>1. Stands(n + 1, more, h + 1, e, max, time)
        BY <1>3, <1>4, <3>4, <3>5, <3>6 DEF Stands
      <4> QED BY <2>0, <3>2, <4>1
    <3>8. ASSUME NEW i \in 1 .. n, n + 1 = i + 2 * max PROVE time >= g[i] + Window
      <4>1. i <= n - h - max /\ g[i] \in Nat
        BY <1>4, <3>1, <3>8
      <4>2. g[i] <= e - Window - Window
        BY <1>5, <3>1, <4>1 DEF Stands
      <4> QED BY <1>3, <1>4, <3>5, <4>1, <4>2
    <3> QED BY <3>7, <3>8
  <2> QED BY <2>1, <2>2
<1>12. ASSUME NEW m \in L!BucketName PROVE Windowed(m)'
  <2>1. CASE m = k
    BY <1>11, <2>1
  <2>2. CASE m # k
    <3>1. granted'[m] = granted[m] /\ Count(m)' = Count(m) /\ lRow'[m] = lRow[m] /\ Windowed(m)
      BY <1>6, <1>7, <2>2 DEF LimiterInv
    <3> QED BY <1>2, <3>1 DEF Windowed, Stands
  <2> QED BY <2>1, <2>2
<1>13. BurstBounded'
  <2>0. DOMAIN granted' = L!BucketName /\ DOMAIN granted = L!BucketName
    BY <1>7 DEF LimiterInv, LimiterTypes
  <2> SUFFICES ASSUME NEW m \in L!BucketName,
                      NEW i \in DOMAIN granted'[m], NEW j \in DOMAIN granted'[m],
                      j = i + 2 * MaxHits[m]
               PROVE  granted'[m][j] >= granted'[m][i] + Window
    BY <2>0 DEF BurstBounded
  <2>1. CASE m # k
    BY <1>7, <2>0, <2>1 DEF LimiterInv, BurstBounded
  <2>2. CASE m = k
    <3>1. /\ i \in 1 .. n + 1 /\ j \in 1 .. n + 1 /\ j = i + 2 * max /\ granted'[m] = more
      BY <1>7, <2>2 DEF max
    <3>2. i \in 1 .. n
      BY <1>4, <3>1
    <3>3. CASE j = n + 1
      BY <1>7, <1>11, <3>1, <3>2, <3>3
    <3>4. CASE j \in 1 .. n
      <4>1. g[j] >= g[i] + Window
        BY <1>4, <2>0, <3>1, <3>2, <3>4 DEF LimiterInv, BurstBounded, g, max
      <4> QED BY <1>7, <3>1, <3>2, <3>4, <4>1
    <3> QED BY <1>4, <3>1, <3>3, <3>4
  <2> QED BY <2>1, <2>2
<1> QED BY <1>9, <1>10, <1>12, <1>13 DEF LimiterInv

\* A hit is refused while the row counts a limit of hits of this window.
LEMMA RefuseKeeps ==
  ASSUME LimiterAssumption, LimiterInv, NEW a \in Attempt, L!Refuse(a)
  PROVE  LimiterInv'
<1> DEFINE k == try[a].key
           now == try[a].now
           n == Count(k)
           h == lRow[k].hits
<1>0. /\ try[a].pc = "upsert" /\ ~ (lRow[k].expires <= now) /\ ~ (h < MaxHits[k])
      /\ try' = [try EXCEPT ![a] = [L!Idle EXCEPT !.cause = L!Recent(k, now)]]
      /\ UNCHANGED <<time, lRow, granted>>
  BY DEF L!Refuse, L!MayHit, L!Over
<1>1. /\ k \in L!BucketName
      /\ n \in Nat /\ h \in Nat /\ lRow[k].expires \in Nat
      /\ \A i \in 1 .. n : granted[k][i] \in Nat
      /\ MaxHits[k] \in Nat /\ MaxHits[k] > 0 /\ Window \in Nat /\ now \in Nat /\ Windowed(k)
  <2>1. k \in L!BucketName
    BY <1>0 DEF LimiterInv, LimiterTypes
  <2>2. n \in Nat /\ \A i \in 1 .. n : granted[k][i] \in Nat
    BY <2>1, HitsAre DEF LimiterInv
  <2>3. h \in Nat /\ lRow[k].expires \in Nat /\ now \in Nat /\ Windowed(k)
    BY <2>1 DEF LimiterInv, LimiterTypes
  <2>4. MaxHits[k] \in Nat /\ MaxHits[k] > 0 /\ Window \in Nat
    BY <2>1, BucketsAre
  <2> QED BY <2>1, <2>2, <2>3, <2>4
<1>2. L!Recent(k, now)
  <2>1. h = MaxHits[k] /\ h > 0 /\ h <= n
    BY <1>0, <1>1 DEF Windowed, Stands
  <2>2. n - h + 1 \in 1 .. n /\ n - h + 1 > n - h
    BY <1>1, <2>1
  <2>3. lRow[k].expires - Window <= granted[k][n - h + 1] /\ granted[k][n - h + 1] \in Nat
    BY <1>1, <2>1, <2>2 DEF Windowed, Stands
  <2>4. granted[k][n - h + 1] > now - Window
    BY <1>0, <1>1, <2>3
  <2> QED BY <1>1, <2>1, <2>2, <2>4 DEF L!Recent, Count
<1> DEFINE r == [L!Idle EXCEPT !.cause = L!Recent(k, now)]
<1>3. /\ r \in [pc : {"idle", "prune", "take", "upsert"}, key : {0} \cup L!BucketName,
                now : Nat, cause : {TRUE}]
      /\ r.pc = "idle"
  <2>1. L!Recent(k, now) \in BOOLEAN
    BY DEF L!Recent
  <2> HIDE DEF k, now
  <2>2. L!Recent(k, now) \in {TRUE}
    BY <1>2, <2>1
  <2> QED BY <2>2 DEF L!Idle
<1> HIDE DEF r
<1>5. /\ try' \in [Attempt -> [pc : {"idle", "prune", "take", "upsert"},
                                key : {0} \cup L!BucketName, now : Nat, cause : BOOLEAN]]
      /\ \A b \in Attempt : try'[b].pc # "idle" => try'[b].key \in L!BucketName
      /\ time \in Nat /\ Waits' /\ RefusedForCause'
  <2>1. try' = [try EXCEPT ![a] = r] /\ time' = time
    BY <1>0 DEF r
  <2> QED BY <1>3, <2>1, AttemptMoves
<1>6. LimiterTypes' /\ time <= time'
  BY <1>0, <1>5 DEF LimiterInv, LimiterTypes, Count
<1> QED BY <1>0, <1>5, <1>6, RowsKept

LEMMA NextKeepsLimiter == LimiterAssumption /\ LimiterInv /\ [L!Next]_(L!vars) => LimiterInv'
<1> SUFFICES ASSUME LimiterAssumption, LimiterInv, [L!Next]_(L!vars) PROVE LimiterInv'
  OBVIOUS
<1>1. CASE L!Tick
  BY <1>1, TickKeeps
<1>2. CASE \E a \in Attempt :
             L!Start(a) \/ L!Prune(a) \/ L!TakeNow(a) \/ L!Grant(a) \/ L!Refuse(a)
  BY <1>2, StartKeeps, PruneKeeps, TakeNowKeeps, GrantKeeps, RefuseKeeps
<1>3. CASE UNCHANGED L!vars
  <2>1. UNCHANGED <<time, lRow, try, granted>>
    BY <1>3 DEF L!vars
  <2> QED BY <2>1 DEF LimiterInv, LimiterTypes, Waits, Windowed, Count,
                      BurstBounded, RefusedForCause
<1> QED BY <1>1, <1>2, <1>3 DEF L!Next

-----------------------------------------------------------------------------

\* However many generations, requests and attempts are under way, whatever
\* becomes of the plan, the keys and the month in between, and in whatever order
\* the statements reach their rows: no plan is exceeded by more than the works
\* under way less one, no counter lets more than two limits of hits through in
\* less than a window, and it refuses a hit only when a limit of hits went
\* through in the window before.
THEOREM LimitsHoldHolds ==
  GuardAssumption /\ LimiterAssumption => (G!Spec /\ L!Spec => []LimitsHold)
<1> SUFFICES ASSUME GuardAssumption /\ LimiterAssumption PROVE G!Spec /\ L!Spec => []LimitsHold
  OBVIOUS
<1>1. G!Init => GuardInv
  BY InitGuard
<1>2. GuardInv /\ [G!Next]_(G!vars) => GuardInv'
  BY NextKeepsGuard
<1>3. L!Init => LimiterInv
  BY InitLimiter
<1>4. LimiterInv /\ [L!Next]_(L!vars) => LimiterInv'
  BY NextKeepsLimiter
<1>5. GuardInv /\ LimiterInv => LimitsHold
  BY GuardIsBounded DEF LimiterInv, LimitsHold
<1> QED BY <1>1, <1>2, <1>3, <1>4, <1>5, PTL DEF G!Spec, L!Spec
=============================================================================
