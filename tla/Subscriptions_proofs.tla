------------------------ MODULE Subscriptions_proofs ------------------------
(***************************************************************************)
(* Theorems about the webhook in its surroundings, for every set of orders, *)
(* plans and requests, every length of period and grace, and every refusal  *)
(* of the gateway.  The lemmas of PaymentWebhook_proofs cover the steps of   *)
(* the webhook; what is new here are the steps around it, and the closing   *)
(* of an account among them.                                               *)
(***************************************************************************)
EXTENDS AccountClosing, PaymentWebhook_proofs

(* A cancellation that dies with its request: the row is not written.  The   *)
(* closing of an account adds this step to those of AppNext.               *)
GiveUpCanceling ==
  /\ canceling' = [s \in Subs |-> "no"]
  /\ UNCHANGED <<vars, form, opened, lapsed, stopped, settled, calendarSwept>>

(* The steps around the webhook, whoever the owners of the rows are.       *)
Surroundings ==
  \/ \E o \in Checkouts : CheckoutStep(o)
  \/ \E c \in Closers, s \in Subs : CloseLapsed(c, s)
  \/ \E s \in Subs : CancelSubscription(s) \/ StopBeforeCancel(s) \/ WriteCancellation(s)
  \/ \E r \in reports : ActOnReport(r)
  \/ CronStep
  \/ GiveUpCanceling

SystemStep == (WebhookStep /\ UNCHANGED appVars) \/ Surroundings

(* The order was opened by a checkout of ours, at the gateway.             *)
AtGateway(o) == gw[o] # "none"

(* A checkout is at the gateway only when its form got that far, and a row   *)
(* comes to exist only with the form that creates it; whatever else is at   *)
(* the gateway is a charge of a calendar such a checkout has left behind.   *)
Forms ==
  /\ \A o \in Checkouts : AtGateway(o) => form[o] \in {"open", "refused"}
  /\ \A o \in Checkouts :
       form[o] \in {"closed", "checking", "conflict"} => subs[SubOf[o]].status = "NONE"
  /\ \A o \in Orders : AtGateway(o) /\ ~IsRenewal(o) => o \in Checkouts
  /\ \A r \in Orders : AtGateway(r) /\ IsRenewal(r) => AtGateway(ParentOf[r])

(* A charge the gateway made on its own comes from a checkout of ours.     *)
OfCalendar(o) == IsRenewal(o) /\ ParentOf[o] \in Checkouts

ReportsOfCalendars ==
  /\ \A h \in Handlers : pc[h] = "idle" => verdict[h] = "none"
  /\ \A h \in Handlers : verdict[h] \in ActedOn => OfCalendar(order(h))
  /\ \A h \in Handlers : pc[h] \in RenewalSteps => OfCalendar(order(h))
  /\ \A r \in reports : OfCalendar(r.id.order)

Sound == TypeOK /\ Control /\ AppTypeOK /\ Forms /\ ReportsOfCalendars
-----------------------------------------------------------------------------
(* ConflictOnlyWhileRunning: what a checkout goes by when it has looked.    *)
RunningCounted ==
  /\ \A s \in Subs : subs[s].status = "ACTIVE" => subs[s].end > 0
  /\ \A o \in Checkouts : form[o] = "checking" =>
       \A s \in RunningOf(o) : s \in Listed(o) \/ now < subs[s].end + Grace

(* NoStuckPending: a closed payment whose row still waits is in hand.      *)
ClosingInHand ==
  crashes = 0 => \A o \in Checkouts :
    payments[o] \in Closing /\ subs[SubOf[o]].status = "PENDING" =>
      \E h \in Handlers : pc[h] = "closePending" /\ order(h) = o

(* CancelStopsCharges: nothing charges on this row any more, or a decline   *)
(* has struck its calendar.                                                *)
Safe(s) == ~Recurring \/ Openers(s) \subseteq stopped \/ Declined(s)

Stopping ==
  /\ \A o \in Checkouts :
       form[o] \notin {"closed", "checking", "conflict"} => subs[SubOf[o]].status # "NONE"
  /\ \A s \in Subs : subs[s].cancelAtEnd => Safe(s)
  /\ \A s \in Subs : canceling[s] = "write" => Safe(s)
  /\ \A s \in Subs : subs[s].status # "NONE" /\ ~subs[s].calendar => Safe(s)

DeclinesClaimed ==
  /\ \A h \in Handlers : pc[h] # "idle" => ClaimedId(msg[h]) \in events
  /\ \A h \in Handlers : pc[h] = "endCalendar" => msg[h].status = "FAILED"

(* RenewalHonoured: a renewal is at the gateway once its day has come, and   *)
(* a captured one that has bought nothing yet is in hand.                  *)
DueBy(r) == opened[ParentOf[r]] + ChargeOf[r] * Period

Honoured(r) == subs[SubOf[r]].end >= DueBy(r) + Period

RenewalsInHand ==
  /\ \A r \in Orders : IsRenewal(r) =>
       /\ payments[r] \in {"NONE"} \union Captured
       /\ AtGateway(r) => DueBy(r) <= now
  /\ crashes = 0 /\ thrown = {} => \A r \in Orders :
       IsRenewal(r) /\ payments[r] = "SUCCEEDED" =>
         \/ Honoured(r)
         \/ \E p \in reports : p.id.order = r /\ UnwantedReport(p)
         \/ \E h \in Handlers : WillReport(h) /\ order(h) = r

-----------------------------------------------------------------------------
(* The steps of the two specifications are steps of the webhook or of its    *)
(* surroundings.                                                           *)
LEMMA AppSteps == [AppNext]_allVars => [SystemStep]_allVars
BY DEF AppNext, SystemStep, Surroundings, CancelStep

LEMMA WebhookSteps ==
  ASSUME WebhookStep
  PROVE  [Next]_vars
BY DEF WebhookStep, Next

(* What the surroundings never touch.                                      *)
LEMMA SurroundingsApart ==
  ASSUME Surroundings
  PROVE  UNCHANGED apartVars
BY DEF Surroundings, CheckoutStep, StartSubscriptionCheckout, RefuseSecond, CreateCheckout,
   GatewayOpensCheckout, GatewayRefusesCheckout, DieBeforeGateway, CloseLapsed,
   CancelSubscription, StopBeforeCancel, WriteCancellation, ActOnReport, CronStep,
   FindLapsed, SweepStaleCheckout, StopCanceledCalendar, GiveUpCanceling, apartVars,
   vars, dbVars, gatewayVars, auditVars, handlerVars

(* A checkout pays for a subscription of its own.                          *)
LEMMA CheckoutFacts ==
  ASSUME NEW o \in Checkouts
  PROVE  /\ o \in Orders /\ ~IsRenewal(o) /\ o \notin Foreign
         /\ SubOf[o] \in Subs
         /\ \A p \in Checkouts : SubOf[p] = SubOf[o] => p = o
BY OrderAssumption, CheckoutAssumption DEF Checkouts

LEMMA CalendarFacts ==
  ASSUME NEW r \in Orders, IsRenewal(r)
  PROVE  /\ ParentOf[r] \in Orders /\ ~IsRenewal(ParentOf[r])
         /\ SubOf[r] = SubOf[ParentOf[r]]
         /\ SubOf[r] \in Subs
BY OrderAssumption, RenewalAssumption DEF IsRenewal

(* What the surroundings do to the payments and to the gateway.            *)
LEMMA SurroundingPayments ==
  ASSUME Sound, Surroundings, NEW o \in Orders
  PROVE  \/ payments'[o] = payments[o]
         \/ /\ o \in Checkouts /\ form[o] = "checking"
            /\ payments'[o] = "CREATED"
         \/ /\ o \in Checkouts /\ payments[o] = "CREATED" /\ payments'[o] = "FAILED"
            /\ GatewayRefusesCheckout(o)
<1>0. payments \in [Orders -> PaymentRowStates]
  BY DEF Sound, TypeOK, StoreTypeOK
<1>1. ASSUME NEW p \in Checkouts, CreateCheckout(p)
      PROVE  \/ payments'[o] = payments[o]
             \/ o \in Checkouts /\ form[o] = "checking" /\ payments'[o] = "CREATED"
  <2>1. form[p] = "checking" /\ payments' = [payments EXCEPT ![p] = "CREATED"]
    BY <1>1 DEF CreateCheckout
  <2> QED BY <1>0, <2>1
<1>2. ASSUME NEW p \in Checkouts, GatewayRefusesCheckout(p)
      PROVE  \/ payments'[o] = payments[o]
             \/ payments[o] = "CREATED" /\ payments'[o] = "FAILED" /\ o = p
  <2>1. \/ payments' = payments
        \/ payments[p] = "CREATED" /\ payments' = [payments EXCEPT ![p] = "FAILED"]
    BY <1>2 DEF GatewayRefusesCheckout, AbandonRefusedCheckout
  <2> QED BY <1>0, <2>1
<1>3. ASSUME ~ \E p \in Checkouts : CreateCheckout(p) \/ GatewayRefusesCheckout(p)
      PROVE  payments' = payments
  BY <1>3 DEF Surroundings, CheckoutStep, StartSubscriptionCheckout, RefuseSecond,
     GatewayOpensCheckout, DieBeforeGateway, CloseLapsed, CancelSubscription,
     StopBeforeCancel, WriteCancellation, ActOnReport, CronStep, FindLapsed,
     SweepStaleCheckout, StopCanceledCalendar, GiveUpCanceling, vars, dbVars
<1> QED BY <1>1, <1>2, <1>3

(* What the gateway knows of is out of the hands of the checkout.           *)
LEMMA KnownKept ==
  ASSUME Sound, Surroundings, NEW o \in Orders, AtGateway(o)
  PROVE  payments'[o] = payments[o]
<1>1. o \in Checkouts => form[o] \in {"open", "refused"}
  BY DEF Sound, Forms
<1>2. GatewayRefusesCheckout(o) => form[o] = "asking"
  BY DEF GatewayRefusesCheckout
<1> QED BY <1>1, <1>2, SurroundingPayments

LEMMA SurroundingGateway ==
  ASSUME Sound, Surroundings, NEW o \in Orders
  PROVE  \/ gw'[o] = gw[o]
         \/ /\ o \in Checkouts /\ form[o] = "asking" /\ gw'[o] \in {"open", "closed"}
            /\ form'[o] \in {"open", "refused"}
         \/ gw[o] = "approved" /\ gw'[o] = "returned"
<1>0. gw \in [Orders -> GatewayStates] /\ form \in [Checkouts -> {"closed", "checking", "asking", "open", "conflict", "refused", "lost"}]
  BY DEF Sound, TypeOK, GatewayTypeOK, AppTypeOK
<1>1. ASSUME NEW p \in Checkouts, GatewayOpensCheckout(p) \/ GatewayRefusesCheckout(p)
      PROVE  \/ gw'[o] = gw[o]
             \/ /\ o = p /\ form[p] = "asking" /\ gw'[o] \in {"open", "closed"}
                /\ form'[o] \in {"open", "refused"}
  BY <1>0, <1>1 DEF GatewayOpensCheckout, GatewayRefusesCheckout
<1>2. ASSUME NEW r \in reports, ActOnReport(r)
      PROVE  gw'[o] = gw[o] \/ (gw[o] = "approved" /\ gw'[o] = "returned")
  BY <1>0, <1>2 DEF ActOnReport, SettleDeclinedRenewal, SettleUnwantedRenewal, RefundIsAnswered
<1>3. ASSUME ~ \E p \in Checkouts : GatewayOpensCheckout(p) \/ GatewayRefusesCheckout(p),
             ~ \E r \in reports : ActOnReport(r)
      PROVE  gw' = gw
  BY <1>3 DEF Surroundings, CheckoutStep, StartSubscriptionCheckout, RefuseSecond,
     CreateCheckout, DieBeforeGateway, CloseLapsed, CancelSubscription,
     StopBeforeCancel, WriteCancellation, CronStep, FindLapsed,
     SweepStaleCheckout, StopCanceledCalendar, GiveUpCanceling, vars, gatewayVars
<1> QED BY <1>1, <1>2, <1>3

(* Money taken stays taken in the surroundings, and posts stay.            *)
LEMMA SurroundingPaid ==
  ASSUME Sound, Surroundings
  PROVE  /\ sent \subseteq sent'
         /\ \A o \in Orders : Paid(o) => Paid(o)'
         /\ \A o \in Orders : AtGateway(o) => AtGateway(o)'
<1>1. ASSUME NEW o \in Orders PROVE (Paid(o) => Paid(o)') /\ (AtGateway(o) => AtGateway(o)')
  <2>1. CASE gw'[o] = gw[o]
    BY <2>1 DEF Paid, AtGateway
  <2>2. CASE o \in Checkouts /\ form[o] = "asking" /\ gw'[o] \in {"open", "closed"}
    BY <2>2 DEF Sound, Forms, AtGateway, Paid
  <2>3. CASE gw[o] = "approved" /\ gw'[o] = "returned"
    BY <2>3 DEF Paid, AtGateway
  <2> QED BY <2>1, <2>2, <2>3, SurroundingGateway
<1>2. sent \subseteq sent'
  BY DEF Surroundings, CheckoutStep, StartSubscriptionCheckout, RefuseSecond,
     CreateCheckout, GatewayOpensCheckout, GatewayRefusesCheckout, DieBeforeGateway,
     CloseLapsed, CancelSubscription, StopBeforeCancel, WriteCancellation, ActOnReport,
     SettleDeclinedRenewal, SettleUnwantedRenewal, RefundIsAnswered, CronStep, FindLapsed,
     SweepStaleCheckout, StopCanceledCalendar, GiveUpCanceling, vars, gatewayVars
<1> QED BY <1>1, <1>2

-----------------------------------------------------------------------------
(* What the surroundings write in a row.                                   *)
LEMMA RowWrites ==
  ASSUME NEW r \in SubscriptionRow
  PROVE  /\ [r EXCEPT !.status = "EXPIRED"] \in SubscriptionRow
         /\ [r EXCEPT !.status = "CANCELED", !.canceledBy = "SYSTEM"] \in SubscriptionRow
         /\ [r EXCEPT !.cancelAtEnd = TRUE, !.canceledBy = "USER",
                      !.calendar = FALSE, !.card = FALSE] \in SubscriptionRow
         /\ NoRow \in SubscriptionRow
         /\ [r EXCEPT !.status = "PENDING", !.calendar = Recurring] \in SubscriptionRow
BY ScheduleAssumption DEF SubscriptionRow, SubscriptionRowStates, SubscriptionStatuses,
   Cancelers, NoRow

LEMMA RowFields ==
  ASSUME NEW r \in SubscriptionRow
  PROVE  /\ LET x == [r EXCEPT !.status = "EXPIRED"] IN
              /\ x.status = "EXPIRED" /\ x.canceledBy = r.canceledBy /\ x.end = r.end
              /\ x.cancelAtEnd = r.cancelAtEnd /\ x.calendar = r.calendar
         /\ LET x == [r EXCEPT !.status = "CANCELED", !.canceledBy = "SYSTEM"] IN
              /\ x.status = "CANCELED" /\ x.end = r.end
              /\ x.cancelAtEnd = r.cancelAtEnd /\ x.calendar = r.calendar
         /\ LET x == [r EXCEPT !.cancelAtEnd = TRUE, !.canceledBy = "USER",
                               !.calendar = FALSE, !.card = FALSE] IN
              x.status = r.status /\ x.end = r.end /\ x.canceledBy = "USER"
         /\ LET x == [r EXCEPT !.status = "PENDING", !.calendar = Recurring] IN
              /\ x.status = "PENDING" /\ x.end = r.end
              /\ x.cancelAtEnd = r.cancelAtEnd /\ x.calendar = Recurring
BY DEF SubscriptionRow

(* The steps of the surroundings that write a row, and what they make of it. *)
Expires(s) ==
  /\ \E c \in Closers : CloseLapsed(c, s)
  /\ subs[s].status = "ACTIVE" /\ subs'[s].status = "EXPIRED"
  /\ subs'[s].end = subs[s].end
  /\ subs'[s].canceledBy = subs[s].canceledBy
  /\ subs'[s].cancelAtEnd = subs[s].cancelAtEnd /\ subs'[s].calendar = subs[s].calendar

Begins(s) ==
  /\ \E o \in Checkouts : CreateCheckout(o) /\ SubOf[o] = s
  /\ subs[s].status = "NONE" /\ subs'[s].status = "PENDING"
  /\ subs'[s].end = 0
  /\ subs'[s].cancelAtEnd = FALSE /\ subs'[s].calendar = Recurring

Abandons(s) ==
  /\ subs[s].status = "PENDING" /\ subs'[s].status = "CANCELED"
  /\ subs'[s].end = subs[s].end
  /\ subs'[s].cancelAtEnd = subs[s].cancelAtEnd /\ subs'[s].calendar = subs[s].calendar

Cancels(s) ==
  /\ WriteCancellation(s)
  /\ subs'[s].status = subs[s].status /\ subs'[s].end = subs[s].end

LEMMA SurroundingRows ==
  ASSUME Sound, Surroundings
  PROVE  /\ subs' \in [Subs -> SubscriptionRow]
         /\ \A s \in Subs :
              \/ subs'[s] = subs[s]
              \/ Expires(s) \/ Begins(s) \/ Abandons(s) \/ Cancels(s)
<1>0. subs \in [Subs -> SubscriptionRow]
  BY DEF Sound, TypeOK, StoreTypeOK
<1>1. ASSUME NEW c \in Closers, NEW s \in Subs, CloseLapsed(c, s)
      PROVE  /\ subs' \in [Subs -> SubscriptionRow]
             /\ \A x \in Subs : subs'[x] = subs[x] \/ Expires(x)
  <2>1. CASE subs' = subs
    BY <1>0, <2>1
  <2>2. CASE subs' # subs
    <3>1. subs[s].status = "ACTIVE" /\ subs' = [subs EXCEPT ![s].status = "EXPIRED"]
      BY <1>1, <2>2 DEF CloseLapsed
    <3>2. \A x \in Subs : [subs[x] EXCEPT !.status = "EXPIRED"] \in SubscriptionRow
      BY <1>0, RowWrites
    <3>3. subs' \in [Subs -> SubscriptionRow]
      BY <1>0, <3>1, <3>2
    <3>4. subs'[s] = [subs[s] EXCEPT !.status = "EXPIRED"]
      BY <1>0, <3>1
    <3>5. Expires(s)
      BY <1>0, <1>1, <3>1, <3>4, RowFields DEF Expires
    <3>6. \A x \in Subs \ {s} : subs'[x] = subs[x]
      BY <1>0, <3>1
    <3> QED BY <3>3, <3>5, <3>6
  <2> QED BY <2>1, <2>2
<1>2. ASSUME NEW o \in Checkouts, CreateCheckout(o)
      PROVE  /\ subs' \in [Subs -> SubscriptionRow]
             /\ \A x \in Subs : subs'[x] = subs[x] \/ Begins(x)
  <2>1. SubOf[o] \in Subs /\ subs[SubOf[o]].status = "NONE"
    BY <1>2, CheckoutFacts DEF CreateCheckout, Sound, Forms
  <2>2. PICK r \in SubscriptionRow : r = NoRow
    BY RowWrites, <1>0, <2>1
  <2>3. PICK fresh \in SubscriptionRow :
          fresh = [r EXCEPT !.status = "PENDING", !.calendar = Recurring]
    BY RowWrites
  <2>4. subs' = [subs EXCEPT ![SubOf[o]] = fresh]
    BY <1>2, <2>2, <2>3 DEF CreateCheckout
  <2>5. r.end = 0 /\ r.cancelAtEnd = FALSE
    BY <2>2 DEF NoRow
  <2>6. subs'[SubOf[o]] = fresh
    BY <1>0, <2>1, <2>4
  <2>7. Begins(SubOf[o])
    BY <1>2, <2>1, <2>3, <2>5, <2>6, RowFields DEF Begins
  <2>8. \A x \in Subs \ {SubOf[o]} : subs'[x] = subs[x]
    BY <1>0, <2>4
  <2>9. subs' \in [Subs -> SubscriptionRow]
    BY <1>0, <2>4
  <2> QED BY <2>7, <2>8, <2>9
<1>3. ASSUME NEW o \in Checkouts, GatewayRefusesCheckout(o)
      PROVE  /\ subs' \in [Subs -> SubscriptionRow]
             /\ \A x \in Subs : subs'[x] = subs[x] \/ Abandons(x)
  <2> DEFINE s == SubOf[o]
  <2>0. s \in Subs
    BY CheckoutFacts
  <2>1. CASE subs' = subs
    BY <1>0, <2>1
  <2>2. CASE subs' # subs
    <3>1. /\ subs[s].status = "PENDING"
          /\ subs' = [subs EXCEPT ![s] = [@ EXCEPT !.status = "CANCELED",
                                                   !.canceledBy = "SYSTEM"]]
      BY <1>3, <2>2 DEF GatewayRefusesCheckout, AbandonRefusedCheckout
    <3>2. \A x \in Subs : [subs[x] EXCEPT !.status = "CANCELED", !.canceledBy = "SYSTEM"]
                            \in SubscriptionRow
      BY <1>0, RowWrites
    <3>3. subs' \in [Subs -> SubscriptionRow]
      BY <1>0, <3>1, <3>2
    <3>4. subs'[s] = [subs[s] EXCEPT !.status = "CANCELED", !.canceledBy = "SYSTEM"]
      BY <1>0, <2>0, <3>1
    <3>5. Abandons(s)
      BY <1>0, <2>0, <3>1, <3>4, RowFields DEF Abandons
    <3>6. \A x \in Subs \ {s} : subs'[x] = subs[x]
      BY <1>0, <3>1
    <3> QED BY <3>3, <3>5, <3>6
  <2> QED BY <2>1, <2>2
<1>4. ASSUME NEW s \in Subs, WriteCancellation(s)
      PROVE  /\ subs' \in [Subs -> SubscriptionRow]
             /\ \A x \in Subs : subs'[x] = subs[x] \/ Cancels(x)
  <2>1. subs' = [subs EXCEPT ![s] = [@ EXCEPT !.cancelAtEnd = TRUE, !.canceledBy = "USER",
                                              !.calendar = FALSE, !.card = FALSE]]
    BY <1>4 DEF WriteCancellation
  <2>2. \A x \in Subs : [subs[x] EXCEPT !.cancelAtEnd = TRUE, !.canceledBy = "USER",
                                        !.calendar = FALSE, !.card = FALSE] \in SubscriptionRow
    BY <1>0, RowWrites
  <2>3. subs' \in [Subs -> SubscriptionRow]
    BY <1>0, <2>1, <2>2
  <2>4. subs'[s] = [subs[s] EXCEPT !.cancelAtEnd = TRUE, !.canceledBy = "USER",
                                   !.calendar = FALSE, !.card = FALSE]
    BY <1>0, <2>1
  <2>5. Cancels(s)
    BY <1>0, <1>4, <2>4, RowFields DEF Cancels
  <2>6. \A x \in Subs \ {s} : subs'[x] = subs[x]
    BY <1>0, <2>1
  <2> QED BY <2>3, <2>5, <2>6
<1>5. ASSUME ~ \E c \in Closers, s \in Subs : CloseLapsed(c, s),
             ~ \E o \in Checkouts : CreateCheckout(o) \/ GatewayRefusesCheckout(o),
             ~ \E s \in Subs : WriteCancellation(s)
      PROVE  subs' = subs
  BY <1>5 DEF Surroundings, CheckoutStep, StartSubscriptionCheckout, RefuseSecond,
     GatewayOpensCheckout, DieBeforeGateway, CancelSubscription, StopBeforeCancel,
     ActOnReport, CronStep, FindLapsed, SweepStaleCheckout, StopCanceledCalendar,
     GiveUpCanceling, vars, dbVars
<1> QED BY <1>0, <1>1, <1>2, <1>3, <1>4, <1>5

-----------------------------------------------------------------------------
(* The types of a step of the surroundings.                                *)
LEMMA SurroundingStore ==
  ASSUME Sound, Surroundings
  PROVE  StoreTypeOK'
<1>0. StoreTypeOK /\ payments \in [Orders -> PaymentRowStates]
  BY DEF Sound, TypeOK, StoreTypeOK
<1>1. purchases' = purchases /\ ledger' = ledger /\ earnings' = earnings /\ now' = now
  BY SurroundingsApart DEF apartVars
<1>2. ASSUME NEW o \in Checkouts, CreateCheckout(o)
      PROVE  payments' \in [Orders -> PaymentRowStates]
  <2>1. payments' = [payments EXCEPT ![o] = "CREATED"]
    BY <1>2 DEF CreateCheckout
  <2> QED BY <1>0, <2>1 DEF PaymentRowStates, PaymentStatuses
<1>3. ASSUME NEW o \in Checkouts, GatewayRefusesCheckout(o)
      PROVE  payments' \in [Orders -> PaymentRowStates]
  <2>1. payments' \in {payments, [payments EXCEPT ![o] = "FAILED"]}
    BY <1>3 DEF GatewayRefusesCheckout, AbandonRefusedCheckout
  <2> QED BY <1>0, <2>1 DEF PaymentRowStates, PaymentStatuses
<1>4. ASSUME ~ \E o \in Checkouts : CreateCheckout(o) \/ GatewayRefusesCheckout(o)
      PROVE  payments' = payments
  BY <1>4 DEF Surroundings, CheckoutStep, StartSubscriptionCheckout, RefuseSecond,
     GatewayOpensCheckout, DieBeforeGateway, CloseLapsed, CancelSubscription,
     StopBeforeCancel, WriteCancellation, ActOnReport, CronStep, FindLapsed,
     SweepStaleCheckout, StopCanceledCalendar, GiveUpCanceling, vars, dbVars
<1>5. payments' \in [Orders -> PaymentRowStates]
  BY <1>0, <1>2, <1>3, <1>4
<1> QED BY <1>0, <1>1, <1>5, SurroundingRows DEF StoreTypeOK

LEMMA SurroundingPosts ==
  ASSUME Sound, Surroundings
  PROVE  GatewayTypeOK'
<1>0. gw \in [Orders -> GatewayStates] /\ attempts \in [Orders -> Nat] /\ sent \subseteq Delivery
  BY DEF Sound, TypeOK, GatewayTypeOK
<1>1. attempts' = attempts
  BY SurroundingsApart DEF apartVars
<1>2. ASSUME NEW r \in reports
      PROVE  Callback(r.id.order, "REFUNDED") \in Delivery /\ r.id.order \in Orders
  <2>1. r.id.order \in Orders
    BY DEF Sound, TypeOK, AuditTypeOK, EventId
  <2> QED BY <1>0, <2>1 DEF Callback, Attempt, Delivery, ReportedStatuses, PaymentStatuses
<1>3. ASSUME NEW r \in reports, ActOnReport(r)
      PROVE  gw' \in [Orders -> GatewayStates] /\ sent' \subseteq Delivery
  <2>1. \/ gw' = gw /\ sent' = sent
        \/ /\ gw' = [gw EXCEPT ![r.id.order] = "returned"]
           /\ sent' = sent \union {Callback(r.id.order, "REFUNDED")}
    BY <1>3 DEF ActOnReport, SettleDeclinedRenewal, SettleUnwantedRenewal, RefundIsAnswered
  <2> QED BY <1>0, <1>2, <2>1 DEF GatewayStates
<1>4. ASSUME NEW o \in Checkouts, SweepStaleCheckout(o)
      PROVE  gw' \in [Orders -> GatewayStates] /\ sent' \subseteq Delivery
  <2>1. ASSUME NEW st \in Verified(o) PROVE SweepAnswer(o, st) \in Delivery
    <3>1. StaleOrderStatus(st) \in PaymentStatuses
      BY DEF StaleOrderStatus, PaymentStatuses
    <3> QED BY <3>1 DEF SweepAnswer, Delivery, ReportedStatuses, Checkouts
  <2>2. gw' = gw /\ \E st \in Verified(o) : sent' = sent \union {SweepAnswer(o, st)}
    BY <1>4 DEF SweepStaleCheckout
  <2> QED BY <1>0, <2>1, <2>2
<1>5. ASSUME NEW o \in Checkouts, GatewayOpensCheckout(o) \/ GatewayRefusesCheckout(o)
      PROVE  gw' \in [Orders -> GatewayStates] /\ sent' \subseteq Delivery
  <2>1. gw' \in {[gw EXCEPT ![o] = "open"], [gw EXCEPT ![o] = "closed"]} /\ sent' = sent
    BY <1>5 DEF GatewayOpensCheckout, GatewayRefusesCheckout
  <2> QED BY <1>0, <2>1 DEF GatewayStates
<1>6. ASSUME ~ \E r \in reports : ActOnReport(r),
             ~ \E o \in Checkouts :
                 \/ SweepStaleCheckout(o) \/ GatewayOpensCheckout(o)
                 \/ GatewayRefusesCheckout(o)
      PROVE  gw' = gw /\ sent' = sent
  BY <1>6 DEF Surroundings, CheckoutStep, StartSubscriptionCheckout, RefuseSecond,
     CreateCheckout, DieBeforeGateway, CloseLapsed, CancelSubscription,
     StopBeforeCancel, WriteCancellation, CronStep, FindLapsed,
     StopCanceledCalendar, GiveUpCanceling, vars, gatewayVars
<1>7. gw' \in [Orders -> GatewayStates] /\ sent' \subseteq Delivery
  BY <1>0, <1>3, <1>4, <1>5, <1>6
<1> QED BY <1>0, <1>1, <1>7 DEF GatewayTypeOK

LEMMA SurroundingType ==
  ASSUME Sound, Surroundings
  PROVE  TypeOK'
<1>1. UNCHANGED <<auditVars, handlerVars>>
  BY SurroundingsApart DEF apartVars
<1>2. AuditTypeOK' /\ HandlerTypeOK'
  BY <1>1 DEF auditVars, handlerVars, Sound, TypeOK, AuditTypeOK, HandlerTypeOK
<1> QED BY <1>2, SurroundingStore, SurroundingPosts DEF TypeOK

(* A step of the webhook leaves the application's own state well typed: the  *)
(* reports only grow.                                                      *)
LEMMA ReportsStay ==
  ASSUME [Next]_vars
  PROVE  reports \subseteq reports' /\ events \subseteq events' /\ thrown \subseteq thrown'
BY DEF Next, GatewayStep, ReceiveDelivery, HandlerStep, Decide, Transition, SaveCard,
   ReadRunning, Open, Fold, Deactivate, ClosePending, Grant, Revoke, Credit, Reverse,
   EndCalendar, RecordRenewal, Renew, Throw, Mark, Crash, Tick, vars, auditVars

LEMMA WebhookAppType ==
  ASSUME AppTypeOK, [Next]_vars, UNCHANGED appVars
  PROVE  AppTypeOK'
BY ReportsStay DEF appVars, AppTypeOK

LEMMA SurroundingAppType ==
  ASSUME Sound, Surroundings
  PROVE  AppTypeOK'
<1>0. AppTypeOK
  BY DEF Sound
<1>1. reports' = reports /\ now' = now
  BY SurroundingsApart DEF apartVars, auditVars
<1>2. now \in Nat /\ \A s \in Subs : subs[s].end \in Nat
  BY DEF Sound, TypeOK, StoreTypeOK, SubscriptionRow
<1>21. \A plans : LapsedOf(plans) \subseteq [row : Subs, end : Nat]
  BY <1>2 DEF LapsedOf
<1>3. ASSUME NEW o \in Checkouts, CheckoutStep(o) PROVE AppTypeOK'
  <2>1. UNCHANGED <<canceling, stopped, settled, calendarSwept>>
    BY <1>3 DEF CheckoutStep, StartSubscriptionCheckout, RefuseSecond, CreateCheckout,
       GatewayOpensCheckout, GatewayRefusesCheckout, DieBeforeGateway
  <2>2. \/ form' = [form EXCEPT ![o] = "checking"]
        \/ form' = [form EXCEPT ![o] = "conflict"]
        \/ form' = [form EXCEPT ![o] = "asking"]
        \/ form' = [form EXCEPT ![o] = "open"]
        \/ form' = [form EXCEPT ![o] = "refused"]
        \/ form' = [form EXCEPT ![o] = "lost"]
    BY <1>3 DEF CheckoutStep, StartSubscriptionCheckout, RefuseSecond, CreateCheckout,
       GatewayOpensCheckout, GatewayRefusesCheckout, DieBeforeGateway
  <2>3. \/ lapsed' = lapsed
        \/ lapsed' = [lapsed EXCEPT ![o] = LapsedOf({PlanOf[SubOf[o]]})]
    BY <1>3 DEF CheckoutStep, StartSubscriptionCheckout, RefuseSecond, CreateCheckout,
       GatewayOpensCheckout, GatewayRefusesCheckout, DieBeforeGateway
  <2>4. opened' = opened \/ opened' = [opened EXCEPT ![o] = now]
    BY <1>3 DEF CheckoutStep, StartSubscriptionCheckout, RefuseSecond, CreateCheckout,
       GatewayOpensCheckout, GatewayRefusesCheckout, DieBeforeGateway
  <2>5. form' \in [Checkouts -> {"closed", "checking", "asking", "open",
                                 "conflict", "refused", "lost"}]
    BY <1>0, <2>2 DEF AppTypeOK
  <2>6. lapsed' \in [Closers -> SUBSET [row : Subs, end : Nat]]
    BY <1>0, <1>21, <2>3 DEF AppTypeOK
  <2>7. opened' \in [Checkouts -> Nat]
    BY <1>0, <1>2, <2>4 DEF AppTypeOK
  <2> QED BY <1>0, <1>1, <2>1, <2>5, <2>6, <2>7 DEF AppTypeOK
<1>4. ASSUME NEW c \in Closers, NEW s \in Subs, CloseLapsed(c, s) PROVE AppTypeOK'
  BY <1>0, <1>1, <1>4 DEF CloseLapsed, AppTypeOK
<1>5. ASSUME NEW s \in Subs, CancelSubscription(s) \/ WriteCancellation(s) PROVE AppTypeOK'
  <2>1. UNCHANGED <<form, opened, lapsed, stopped, settled, calendarSwept>>
    BY <1>5 DEF CancelSubscription, WriteCancellation
  <2>2. \/ canceling' = [canceling EXCEPT ![s] = "stop"]
        \/ canceling' = [canceling EXCEPT ![s] = "write"]
        \/ canceling' = [canceling EXCEPT ![s] = "no"]
    BY <1>5 DEF CancelSubscription, WriteCancellation
  <2> QED BY <1>0, <1>1, <2>1, <2>2 DEF AppTypeOK
<1>6. ASSUME NEW s \in Subs, StopBeforeCancel(s) PROVE AppTypeOK'
  <2>1. UNCHANGED <<form, opened, lapsed, settled, calendarSwept>>
    BY <1>6 DEF StopBeforeCancel
  <2>2. \/ canceling' = [canceling EXCEPT ![s] = "write"]
        \/ canceling' = [canceling EXCEPT ![s] = "no"]
    BY <1>6 DEF StopBeforeCancel
  <2>3. stopped' \subseteq stopped \union Openers(s)
    BY <1>6 DEF StopBeforeCancel, StopIsAnswered
  <2> QED BY <1>0, <1>1, <2>1, <2>2, <2>3 DEF AppTypeOK, Openers
<1>7. ASSUME NEW r \in reports, ActOnReport(r) PROVE AppTypeOK'
  <2>1. UNCHANGED <<form, opened, lapsed, canceling, calendarSwept>>
    BY <1>7 DEF ActOnReport
  <2>2. settled' = settled \union {r}
    BY <1>7 DEF ActOnReport
  <2>3. stopped' \subseteq stopped \union {ParentOf[r.id.order]}
    BY <1>7 DEF ActOnReport, SettleDeclinedRenewal, SettleUnwantedRenewal, StopIsAnswered
  <2>4. ParentOf[r.id.order] \in Checkouts
    BY DEF Sound, ReportsOfCalendars, OfCalendar
  <2> QED BY <1>0, <1>1, <2>1, <2>2, <2>3, <2>4 DEF AppTypeOK
<1>8. CASE CronStep
  <2>1. CASE FindLapsed
    BY <1>0, <1>1, <1>21, <2>1 DEF FindLapsed, AppTypeOK
  <2>2. ASSUME NEW o \in Checkouts, SweepStaleCheckout(o) PROVE AppTypeOK'
    BY <1>0, <1>1, <2>2 DEF SweepStaleCheckout, appVars, AppTypeOK
  <2>3. ASSUME NEW o \in Checkouts, StopCanceledCalendar(o) PROVE AppTypeOK'
    <3>1. UNCHANGED <<form, opened, lapsed, canceling, settled>>
      BY <2>3 DEF StopCanceledCalendar
    <3>2. stopped' \subseteq stopped \union {o} /\ calendarSwept' = calendarSwept \union {o}
      BY <2>3 DEF StopCanceledCalendar, StopIsAnswered
    <3> QED BY <1>0, <1>1, <3>1, <3>2 DEF AppTypeOK
  <2> QED BY <1>8, <2>1, <2>2, <2>3 DEF CronStep
<1>9. CASE GiveUpCanceling
  BY <1>0, <1>1, <1>9 DEF GiveUpCanceling, AppTypeOK
<1> QED BY <1>3, <1>4, <1>5, <1>6, <1>7, <1>8, <1>9 DEF Surroundings
-----------------------------------------------------------------------------
(* What is signed in the surroundings is true: the sweep repeats what the    *)
(* gateway says, and a refund follows a payment.                           *)
LEMMA SurroundingSigned ==
  ASSUME Sound, Surroundings
  PROVE  SignedIsTrue'
<1>0. \A d : AmountRefused(d)' <=> AmountRefused(d)
  BY DEF AmountRefused
<1>1. ASSUME NEW d \in sent' \ sent, d.status \in Captured
      PROVE  Paid(d.order)'
  <2>1. CASE \E r \in reports : ActOnReport(r)
    <3>1. PICK r \in reports : ActOnReport(r)
      BY <2>1
    <3>2. /\ gw' = [gw EXCEPT ![r.id.order] = "returned"]
          /\ d = Callback(r.id.order, "REFUNDED")
      BY <1>1, <3>1 DEF ActOnReport, SettleDeclinedRenewal, SettleUnwantedRenewal,
         RefundIsAnswered
    <3>3. r.id.order \in Orders
      BY DEF Sound, TypeOK, AuditTypeOK, EventId
    <3> QED BY <3>2, <3>3 DEF Callback, Attempt, Paid, Sound, TypeOK, GatewayTypeOK
  <2>2. CASE ~ \E r \in reports : ActOnReport(r)
    <3>1. PICK o \in Checkouts : SweepStaleCheckout(o)
      BY <1>1, <2>2 DEF Surroundings, CheckoutStep, StartSubscriptionCheckout, RefuseSecond,
         CreateCheckout, GatewayOpensCheckout, GatewayRefusesCheckout, DieBeforeGateway,
         CloseLapsed, CancelSubscription, StopBeforeCancel, WriteCancellation, CronStep,
         FindLapsed, StopCanceledCalendar, GiveUpCanceling, vars, gatewayVars
    <3>2. PICK st \in Verified(o) : sent' = sent \union {SweepAnswer(o, st)}
      BY <3>1 DEF SweepStaleCheckout
    <3>3. d.order = o /\ d.status = StaleOrderStatus(st)
      BY <1>1, <3>2 DEF SweepAnswer
    <3>4. st = "SUCCEEDED"
      BY <1>1, <3>3 DEF StaleOrderStatus, Captured, Reversing
    <3>5. gw[o] = "approved"
      BY <3>2, <3>4 DEF Verified
    <3>6. gw' = gw
      BY <3>1 DEF SweepStaleCheckout
    <3> QED BY <3>3, <3>5, <3>6 DEF Paid
  <2> QED BY <2>1, <2>2
<1>2. ASSUME NEW d \in sent, d.signed, d.status \in Captured, ~AmountRefused(d),
             d.order \notin Foreign
      PROVE  Paid(d.order)'
  <2>1. Paid(d.order)
    BY <1>2 DEF Sound, Control, SignedIsTrue
  <2>2. d.order \in Orders
    BY DEF Sound, TypeOK, GatewayTypeOK, Delivery
  <2> QED BY <2>1, <2>2, SurroundingPaid
<1> QED BY <1>0, <1>1, <1>2 DEF SignedIsTrue

LEMMA SurroundingControl ==
  ASSUME Sound, Surroundings
  PROVE  Control'
<1>1. ForeignUnknown'
  <2> SUFFICES ASSUME NEW o \in Foreign PROVE payments'[o] = "NONE"
    BY DEF ForeignUnknown
  <2>1. payments[o] = "NONE" /\ o \in Orders /\ o \notin Checkouts
    BY WebhookAssumption DEF Sound, Control, ForeignUnknown, Checkouts
  <2> QED BY <2>1, SurroundingPayments
<1>2. UNCHANGED handlerVars
  BY SurroundingsApart DEF apartVars
<1>3. ASSUME NEW g \in Handlers PROVE Holds(g)'
  <2>0. Holds(g) /\ UNCHANGED <<pc, msg, seen, verdict>>
    BY <1>2 DEF handlerVars, Sound, Control
  <2>1. pc[g] # "idle" => msg[g] \in Delivery /\ msg[g].order \in Orders
    BY DeliveryFields DEF Sound, TypeOK, HandlerTypeOK
  <2>2. pc[g] # "idle" => (Paid(order(g)) => Paid(order(g))')
    BY <2>0, <2>1, SurroundingPaid DEF order, Paid
  <2>3. pc[g] # "idle" => msg[g] \in sent'
    BY <2>0, SurroundingPaid DEF Holds
  <2> QED
    BY <2>0, <2>2, <2>3 DEF Holds, order, sub, IsRenewal, PaidSteps, SubscriptionSteps,
       OpeningSteps, RenewalSteps, CanTransition
<1> QED BY <1>1, <1>3, SurroundingSigned DEF Control

-----------------------------------------------------------------------------
(* What the webhook makes of a row, by the request that writes it.         *)
SameBut(s, status) ==
  /\ subs'[s].status = status /\ subs'[s].end = subs[s].end
  /\ subs'[s].cancelAtEnd = subs[s].cancelAtEnd

Strikes(h, s) ==
  /\ EndCalendar(h) /\ s = sub(h)
  /\ SameBut(s, subs[s].status)

Closes(h, s) ==
  /\ ClosePending(h) \/ Deactivate(h)
  /\ s = sub(h) /\ subs[s].status \in {"PENDING", "ACTIVE"}
  /\ SameBut(s, "CANCELED") /\ subs'[s].calendar = subs[s].calendar

FoldsInto(h, s) ==
  /\ Fold(h) /\ s # sub(h)
  /\ subs'[s].status = subs[s].status /\ subs'[s].calendar = subs[s].calendar
  /\ subs'[s].end >= now + Period /\ subs'[s].cancelAtEnd = FALSE

FoldsAway(h, s) ==
  /\ Fold(h) /\ s = sub(h)
  /\ subs'[s].status = "CANCELED" /\ subs'[s].calendar = subs[s].calendar
  /\ subs'[s].end = subs[s].end \/ subs'[s].end >= now + Period
  /\ subs'[s].cancelAtEnd \in {subs[s].cancelAtEnd, FALSE}

Opens(h, s) ==
  /\ Open(h) /\ s = sub(h) /\ Openable(s)
  /\ subs'[s].status = "ACTIVE" /\ subs'[s].end = now + Period
  /\ subs'[s].cancelAtEnd = FALSE /\ subs'[s].calendar = subs[s].calendar

Renews(h, s) ==
  /\ Renew(h) /\ s = sub(h) /\ Renewable(s)
  /\ subs'[s].status = "ACTIVE" /\ subs'[s].end = now + Period
  /\ subs'[s].cancelAtEnd = subs[s].cancelAtEnd /\ subs'[s].calendar = TRUE

Writes(h, s) ==
  \/ SameBut(s, subs[s].status) /\ subs'[s].calendar = subs[s].calendar
  \/ Strikes(h, s) \/ Closes(h, s) \/ FoldsInto(h, s) \/ FoldsAway(h, s)
  \/ Opens(h, s) \/ Renews(h, s)

LEMMA RowParts ==
  ASSUME NEW r \in SubscriptionRow
  PROVE  /\ LET x == [r EXCEPT !.card = TRUE] IN
              /\ x.status = r.status /\ x.end = r.end
              /\ x.cancelAtEnd = r.cancelAtEnd /\ x.calendar = r.calendar
         /\ LET x == [r EXCEPT !.calendar = FALSE, !.card = FALSE] IN
              x.status = r.status /\ x.end = r.end /\ x.cancelAtEnd = r.cancelAtEnd
         /\ LET x == [r EXCEPT !.status = "CANCELED", !.canceledBy = "PAYMENT"] IN
              /\ x.status = "CANCELED" /\ x.end = r.end
              /\ x.cancelAtEnd = r.cancelAtEnd /\ x.calendar = r.calendar
BY DEF SubscriptionRow

LEMMA FoldRows ==
  ASSUME TypeOK, NEW h \in Handlers, Fold(h), NEW s \in Subs
  PROVE  FoldsInto(h, s) \/ FoldsAway(h, s) \/ subs'[s] = subs[s]
<1>0. subs \in [Subs -> SubscriptionRow] /\ now \in Nat /\ fold[h] \in FoldRead
  BY DEF TypeOK, StoreTypeOK, HandlerTypeOK
<1>1. PICK end \in Nat : end = Later(fold[h].base, now) + Period /\ end >= now + Period
  <2>1. fold[h].base \in Nat /\ Period \in Nat
    BY <1>0, AttributeAssumption DEF FoldRead
  <2> QED BY <1>0, <2>1 DEF Later
<1>2. PICK gained : gained = [subs EXCEPT ![fold[h].running] =
                                [@ EXCEPT !.end = end, !.cancelAtEnd = FALSE]]
  OBVIOUS
<1>3. subs' = [gained EXCEPT ![sub(h)] = [@ EXCEPT !.status = "CANCELED",
                                                   !.canceledBy = "SYSTEM"]]
  BY <1>1, <1>2 DEF Fold, FoldSubscription
<1>4. DOMAIN gained = Subs
  BY <1>0, <1>2
<1>5. \/ gained[s] = subs[s]
      \/ gained[s] = [subs[s] EXCEPT !.end = end, !.cancelAtEnd = FALSE]
  BY <1>0, <1>2
<1>6. /\ gained[s] \in SubscriptionRow
      /\ gained[s].status = subs[s].status /\ gained[s].calendar = subs[s].calendar
      /\ gained[s].end \in {subs[s].end, end}
      /\ gained[s].cancelAtEnd \in {subs[s].cancelAtEnd, FALSE}
  <2>1. PICK r \in SubscriptionRow, x \in {gained[s]} : r = subs[s] /\ x = gained[s]
    BY <1>0
  <2>2. CASE x = r
    BY <2>1, <2>2
  <2>3. CASE x = [r EXCEPT !.end = end, !.cancelAtEnd = FALSE]
    <3>1. /\ x \in SubscriptionRow
          /\ x.status = r.status /\ x.calendar = r.calendar
          /\ x.end = end /\ x.cancelAtEnd = FALSE
      BY <2>3 DEF SubscriptionRow
    <3> QED BY <2>1, <3>1
  <2> QED BY <1>5, <2>1, <2>2, <2>3
<1>7. CASE s # sub(h)
  <2>1. subs'[s] = gained[s]
    BY <1>3, <1>4, <1>7
  <2>2. CASE gained[s] = subs[s]
    BY <2>1, <2>2
  <2>3. CASE gained[s] = [subs[s] EXCEPT !.end = end, !.cancelAtEnd = FALSE]
    <3>1. /\ gained[s].status = subs[s].status /\ gained[s].calendar = subs[s].calendar
          /\ gained[s].end = end /\ gained[s].cancelAtEnd = FALSE
      <4>1. PICK r \in SubscriptionRow, x \in {gained[s]} : r = subs[s] /\ x = gained[s]
        BY <1>0
      <4>2. x = [r EXCEPT !.end = end, !.cancelAtEnd = FALSE]
        BY <2>3, <4>1
      <4>3. /\ x.status = r.status /\ x.calendar = r.calendar
            /\ x.end = end /\ x.cancelAtEnd = FALSE
        BY <4>2 DEF SubscriptionRow
      <4> QED BY <4>1, <4>3
    <3>2. FoldsInto(h, s)
      BY <1>1, <1>7, <2>1, <3>1 DEF FoldsInto
    <3> QED BY <3>2
  <2> QED BY <1>5, <2>2, <2>3
<1>8. CASE s = sub(h)
  <2>1. subs'[s] = [gained[s] EXCEPT !.status = "CANCELED", !.canceledBy = "SYSTEM"]
    BY <1>3, <1>4, <1>8
  <2>2. /\ subs'[s].status = "CANCELED" /\ subs'[s].end = gained[s].end
        /\ subs'[s].cancelAtEnd = gained[s].cancelAtEnd
        /\ subs'[s].calendar = gained[s].calendar
    BY <1>6, <2>1, RowFields
  <2>3. FoldsAway(h, s)
    BY <1>1, <1>6, <1>8, <2>2 DEF FoldsAway
  <2> QED BY <2>3
<1> QED BY <1>7, <1>8

LEMMA WebhookRows ==
  ASSUME TypeOK, [Next]_vars, NEW s \in Subs
  PROVE  \/ subs'[s] = subs[s]
         \/ \E h \in Handlers : Writes(h, s)
<1>0. /\ subs \in [Subs -> SubscriptionRow] /\ subs[s] \in SubscriptionRow
      /\ now + Period \in Nat
  BY AttributeAssumption DEF TypeOK, StoreTypeOK
<1>1. ASSUME NEW h \in Handlers, SaveCard(h)
      PROVE  subs'[s] = subs[s] \/ Writes(h, s)
  <2>1. \/ subs'[s] = subs[s]
        \/ subs'[s] = [subs[s] EXCEPT !.card = TRUE]
    BY <1>0, <1>1 DEF SaveCard, SaveCardToken
  <2> QED BY <1>0, <2>1, RowParts DEF Writes, SameBut
<1>2. ASSUME NEW h \in Handlers, EndCalendar(h)
      PROVE  subs'[s] = subs[s] \/ Writes(h, s)
  <2>1. \/ subs'[s] = subs[s]
        \/ s = sub(h) /\ subs'[s] = [subs[s] EXCEPT !.calendar = FALSE, !.card = FALSE]
    BY <1>0, <1>2 DEF EndCalendar, EndRenewalCalendar
  <2> QED BY <1>0, <1>2, <2>1, RowParts DEF Writes, Strikes, SameBut
<1>3. ASSUME NEW h \in Handlers, ClosePending(h) \/ Deactivate(h)
      PROVE  subs'[s] = subs[s] \/ Writes(h, s)
  <2>1. \/ subs'[s] = subs[s]
        \/ /\ s = sub(h) /\ subs[s].status \in {"PENDING", "ACTIVE"}
           /\ subs'[s] = [subs[s] EXCEPT !.status = "CANCELED", !.canceledBy = "PAYMENT"]
    BY <1>0, <1>3 DEF ClosePending, Deactivate, ClosePendingSubscription,
       DeactivateSubscription, CloseSubscription
  <2> QED BY <1>0, <1>3, <2>1, RowParts DEF Writes, Closes, SameBut
<1>4. ASSUME NEW h \in Handlers, Open(h)
      PROVE  subs'[s] = subs[s] \/ Writes(h, s)
  <2>1. \/ subs'[s] = subs[s]
        \/ /\ s = sub(h) /\ Openable(s)
           /\ subs'[s] = [subs[s] EXCEPT !.status = "ACTIVE", !.end = now + Period,
                                        !.canceledBy = "none", !.cancelAtEnd = FALSE]
    BY <1>0, <1>4 DEF Open, OpenSubscription, Throw, dbVars
  <2>2. PICK r \in SubscriptionRow, n \in Nat, x \in {subs'[s]} :
          r = subs[s] /\ n = now + Period /\ x = subs'[s]
    BY <1>0
  <2>3. CASE x = [r EXCEPT !.status = "ACTIVE", !.end = n, !.canceledBy = "none",
                      !.cancelAtEnd = FALSE]
    <3>2. /\ x.status = "ACTIVE" /\ x.end = n
          /\ x.cancelAtEnd = FALSE /\ x.calendar = r.calendar
      BY <2>3 DEF SubscriptionRow
    <3>3. CASE s = sub(h) /\ Openable(s)
      BY <1>4, <2>2, <3>2, <3>3 DEF Writes, Opens
    <3> QED BY <2>1, <2>2, <3>3
  <2> QED BY <2>1, <2>2, <2>3
<1>5. ASSUME NEW h \in Handlers, Renew(h)
      PROVE  subs'[s] = subs[s] \/ Writes(h, s)
  <2>1. \/ subs'[s] = subs[s]
        \/ /\ s = sub(h) /\ Renewable(s)
           /\ subs'[s] = [subs[s] EXCEPT !.status = "ACTIVE", !.end = now + Period,
                                        !.calendar = TRUE]
    BY <1>0, <1>5 DEF Renew, RenewSubscription, Throw, dbVars
  <2>2. PICK r \in SubscriptionRow, n \in Nat, x \in {subs'[s]} :
          r = subs[s] /\ n = now + Period /\ x = subs'[s]
    BY <1>0
  <2>3. CASE x = [r EXCEPT !.status = "ACTIVE", !.end = n, !.calendar = TRUE]
    <3>2. /\ x.status = "ACTIVE" /\ x.end = n
          /\ x.cancelAtEnd = r.cancelAtEnd /\ x.calendar = TRUE
      BY <2>3 DEF SubscriptionRow
    <3>3. CASE s = sub(h) /\ Renewable(s)
      BY <1>5, <2>2, <3>2, <3>3 DEF Writes, Renews
    <3> QED BY <2>1, <2>2, <3>3
  <2> QED BY <2>1, <2>2, <2>3
<1>6. ASSUME NEW h \in Handlers, Fold(h)
      PROVE  subs'[s] = subs[s] \/ Writes(h, s)
  BY <1>6, FoldRows DEF Writes
<1> QED BY <1>1, <1>2, <1>3, <1>4, <1>5, <1>6, OtherSteps

-----------------------------------------------------------------------------
(* The gateway starts an order by itself only as a charge of a calendar.    *)
LEMMA GatewayOpens ==
  ASSUME TypeOK, [Next]_vars, NEW o \in Orders, gw'[o] # gw[o]
  PROVE  \/ GatewayStep /\ AtGateway(o) /\ AtGateway(o)'
         \/ GatewayStep /\ GatewayRenews(o) /\ gw'[o] = "open"
<1>1. GatewayStep
  BY DEF Next, ReceiveDelivery, HandlerStep, Decide, Transition, SaveCard,
     ReadRunning, Open, Fold, Deactivate, ClosePending, Grant, Revoke, Credit,
     Reverse, EndCalendar, RecordRenewal, Renew, Mark, Crash, Tick, vars, gatewayVars
<1>2. PICK p \in Orders :
        \/ GatewayProcesses(p) \/ GatewayDeclines(p) \/ GatewayApproves(p)
        \/ GatewayRepeats(p) \/ GatewayCloses(p) \/ GatewayReturns(p)
        \/ GatewayRenews(p)
  BY <1>1 DEF GatewayStep
<1>3. gw \in [Orders -> GatewayStates]
  BY DEF TypeOK, GatewayTypeOK
<1>4. CASE GatewayRenews(p)
  BY <1>1, <1>3, <1>4 DEF GatewayRenews
<1>5. CASE ~GatewayRenews(p)
  BY <1>1, <1>2, <1>3, <1>5 DEF GatewayProcesses, GatewayDeclines, GatewayApproves,
     GatewayRepeats, GatewayCloses, GatewayReturns, AtGateway
<1> QED BY <1>4, <1>5

(* A request that gives or takes something for a row works on an order at    *)
(* the gateway, so the checkout of that row has come that far.             *)
LEMMA PaidIsOpened ==
  ASSUME Sound, NEW h \in Handlers, pc[h] \in PaidSteps, NEW o \in Checkouts,
         sub(h) = SubOf[o]
  PROVE  /\ AtGateway(o)
         /\ order(h) = o \/ (IsRenewal(order(h)) /\ ParentOf[order(h)] = o)
<1>1. order(h) \in Orders /\ AtGateway(order(h)) /\ SubOf[order(h)] = SubOf[o]
  BY DeliveryFields DEF Sound, TypeOK, HandlerTypeOK, Control, Holds, PaidSteps, Paid,
     AtGateway, order, sub
<1>2. CASE IsRenewal(order(h))
  <2>1. /\ ParentOf[order(h)] \in Orders /\ ~IsRenewal(ParentOf[order(h)])
        /\ SubOf[order(h)] = SubOf[ParentOf[order(h)]]
    BY <1>1, <1>2, CalendarFacts
  <2>2. AtGateway(ParentOf[order(h)])
    BY <1>1, <1>2 DEF Sound, Forms
  <2>3. ParentOf[order(h)] \in Checkouts
    BY <2>1, <2>2 DEF Sound, Forms
  <2>4. ParentOf[order(h)] = o
    BY <1>1, <2>1, <2>3, CheckoutFacts
  <2> QED BY <1>2, <2>2, <2>4
<1>3. CASE ~IsRenewal(order(h))
  <2>1. order(h) \in Checkouts
    BY <1>1, <1>3 DEF Sound, Forms
  <2> QED BY <1>1, <2>1, CheckoutFacts
<1> QED BY <1>2, <1>3

(* A row that does not exist yet is written by no request.                 *)
LEMMA NoRowStays ==
  ASSUME Sound, [Next]_vars, NEW o \in Checkouts, ~AtGateway(o),
         subs[SubOf[o]].status = "NONE"
  PROVE  subs'[SubOf[o]].status = "NONE"
<1>1. SubOf[o] \in Subs
  BY CheckoutFacts
<1>2. ASSUME NEW h \in Handlers, FoldsAway(h, SubOf[o]) PROVE FALSE
  <2>1. pc[h] \in PaidSteps
    BY <1>2 DEF FoldsAway, Fold, PaidSteps
  <2> QED BY <1>2, <2>1, PaidIsOpened DEF FoldsAway
<1> QED BY <1>1, <1>2, WebhookRows DEF Sound, Writes, SameBut, Strikes, Closes, FoldsInto,
        Opens, Openable, Renews, Renewable

LEMMA WebhookForms ==
  ASSUME Sound, [Next]_vars, UNCHANGED appVars
  PROVE  Forms'
<1>0. form' = form
  BY DEF appVars
<1>1. ASSUME NEW o \in Checkouts, AtGateway(o)' PROVE form[o] \in {"open", "refused"}
  BY <1>1, GatewayOpens, CheckoutFacts DEF Sound, Forms, AtGateway, GatewayRenews
<1>2. ASSUME NEW o \in Checkouts, form[o] \in {"closed", "checking", "conflict"}
      PROVE  subs'[SubOf[o]].status = "NONE"
  <2>1. ~AtGateway(o) /\ subs[SubOf[o]].status = "NONE"
    BY <1>2 DEF Sound, Forms
  <2> QED BY <2>1, NoRowStays
<1>3. ASSUME NEW o \in Orders, AtGateway(o)', ~IsRenewal(o) PROVE o \in Checkouts
  BY <1>3, GatewayOpens DEF Sound, Forms, AtGateway, GatewayRenews
<1>4. ASSUME NEW o \in Orders, AtGateway(o) PROVE AtGateway(o)'
  BY <1>4, GatewayOpens DEF Sound, AtGateway
<1>5. ASSUME NEW r \in Orders, AtGateway(r)', IsRenewal(r) PROVE AtGateway(ParentOf[r])'
  <2>1. ParentOf[r] \in Orders
    BY <1>5, CalendarFacts
  <2>2. AtGateway(ParentOf[r])
    BY <1>5, GatewayOpens DEF Sound, Forms, AtGateway, GatewayRenews
  <2> QED BY <1>4, <2>1, <2>2
<1>6. \A o : IsRenewal(o)' <=> IsRenewal(o)
  BY DEF IsRenewal
<1> QED BY <1>0, <1>1, <1>2, <1>3, <1>5, <1>6 DEF Forms

LEMMA SurroundingForms ==
  ASSUME Sound, Surroundings
  PROVE  Forms'
<1>0. form \in [Checkouts -> {"closed", "checking", "asking", "open",
                             "conflict", "refused", "lost"}]
  BY DEF Sound, AppTypeOK
<1>1. ASSUME NEW o \in Checkouts, form[o] \in {"open", "refused"}
      PROVE  form'[o] = form[o]
  BY <1>0, <1>1 DEF Surroundings, CheckoutStep, StartSubscriptionCheckout, RefuseSecond,
     CreateCheckout, GatewayOpensCheckout, GatewayRefusesCheckout, DieBeforeGateway,
     CloseLapsed, CancelSubscription, StopBeforeCancel, WriteCancellation, ActOnReport,
     CronStep, FindLapsed, SweepStaleCheckout, StopCanceledCalendar, GiveUpCanceling, appVars
<1>2. ASSUME NEW o \in Checkouts, AtGateway(o)' PROVE form'[o] \in {"open", "refused"}
  <2>1. o \in Orders
    BY DEF Checkouts
  <2>2. CASE AtGateway(o)
    BY <1>1, <2>2 DEF Sound, Forms
  <2>3. CASE ~AtGateway(o)
    BY <1>2, <2>1, <2>3, SurroundingGateway DEF AtGateway
  <2> QED BY <2>2, <2>3
<1>3. ASSUME NEW o \in Checkouts, form'[o] \in {"closed", "checking", "conflict"}
      PROVE  /\ form[o] \in {"closed", "checking", "conflict"}
             /\ ~CreateCheckout(o)
  BY <1>0, <1>3 DEF Surroundings, CheckoutStep, StartSubscriptionCheckout, RefuseSecond,
     CreateCheckout, GatewayOpensCheckout, GatewayRefusesCheckout, DieBeforeGateway,
     CloseLapsed, CancelSubscription, StopBeforeCancel, WriteCancellation, ActOnReport,
     CronStep, FindLapsed, SweepStaleCheckout, StopCanceledCalendar, GiveUpCanceling, appVars
<1>4. ASSUME NEW o \in Checkouts, form'[o] \in {"closed", "checking", "conflict"}
      PROVE  subs'[SubOf[o]].status = "NONE"
  <2>1. SubOf[o] \in Subs /\ subs[SubOf[o]].status = "NONE" /\ ~CreateCheckout(o)
    BY <1>3, <1>4, CheckoutFacts DEF Sound, Forms
  <2>2. ~Begins(SubOf[o])
    BY <2>1, CheckoutFacts DEF Begins
  <2> QED BY <2>1, <2>2, SurroundingRows DEF Expires, Abandons, Cancels
<1>5. ASSUME NEW o \in Orders, AtGateway(o)', ~IsRenewal(o) PROVE o \in Checkouts
  BY <1>5, SurroundingGateway DEF Sound, Forms, AtGateway
<1>6. ASSUME NEW r \in Orders, AtGateway(r)', IsRenewal(r) PROVE AtGateway(ParentOf[r])'
  <2>1. ParentOf[r] \in Orders /\ r \notin Checkouts
    BY <1>6, CalendarFacts DEF Checkouts
  <2>2. AtGateway(r)
    BY <1>6, <2>1, SurroundingGateway DEF AtGateway
  <2>3. AtGateway(ParentOf[r])
    BY <1>6, <2>2 DEF Sound, Forms
  <2> QED BY <2>1, <2>3, SurroundingPaid
<1>7. \A o : IsRenewal(o)' <=> IsRenewal(o)
  BY DEF IsRenewal
<1> QED BY <1>2, <1>4, <1>5, <1>6, <1>7 DEF Forms

-----------------------------------------------------------------------------
(* A renewal that is read as such, or is at the gateway, is of a calendar    *)
(* left behind by a checkout of ours.                                      *)
LEMMA CalendarKnown ==
  ASSUME Sound, NEW r \in Orders, IsRenewal(r),
         Found(ParentOf[r]) \/ AtGateway(r)
  PROVE  OfCalendar(r)
<1>1. /\ ParentOf[r] \in Orders /\ ~IsRenewal(ParentOf[r])
      /\ SubOf[ParentOf[r]] \in Subs /\ SubOf[ParentOf[r]] # None
  BY CalendarFacts, NoneAssumption
<1>2. CASE Found(ParentOf[r])
  <2>1. ParentOf[r] \notin Foreign
    BY <1>2 DEF Sound, Control, ForeignUnknown, Found
  <2> QED BY <1>1, <2>1 DEF OfCalendar, Checkouts
<1>3. CASE AtGateway(r)
  BY <1>1, <1>3 DEF Sound, Forms, OfCalendar
<1> QED BY <1>2, <1>3

LEMMA OwnReports ==
  ASSUME Sound, NEW h \in Handlers, HandlerStep(h)
  PROVE  /\ pc'[h] = "idle" => verdict'[h] = "none"
         /\ verdict'[h] \in ActedOn => OfCalendar(order(h)) /\ msg'[h] = msg[h]
         /\ pc'[h] \in RenewalSteps => OfCalendar(order(h)) /\ msg'[h] = msg[h]
<1>0. HandlerTypeOK /\ Holds(h) /\ pc[h] # "idle"
  BY DEF Sound, TypeOK, Control, HandlerStep, Decide, Transition, SaveCard, ReadRunning,
     Open, Fold, Deactivate, ClosePending, Grant, Revoke, Credit, Reverse, EndCalendar,
     RecordRenewal, Renew, Mark
<1>1. order(h) \in Orders
  BY <1>0, DeliveryFields DEF HandlerTypeOK, order
<1>2. /\ verdict[h] \in ActedOn => OfCalendar(order(h))
      /\ pc[h] \in RenewalSteps => OfCalendar(order(h))
  BY DEF Sound, ReportsOfCalendars
<1>3. CASE Forget(h)
  BY <1>0, <1>3 DEF Forget, Goto, HandlerTypeOK, ActedOn, RenewalSteps
<1>4. ASSUME msg' = msg, pc'[h] # "idle",
             verdict'[h] \in ActedOn => verdict'[h] = verdict[h] \/ pc[h] \in RenewalSteps,
             pc'[h] \notin RenewalSteps
      PROVE  /\ pc'[h] = "idle" => verdict'[h] = "none"
             /\ verdict'[h] \in ActedOn => OfCalendar(order(h)) /\ msg'[h] = msg[h]
             /\ pc'[h] \in RenewalSteps => OfCalendar(order(h)) /\ msg'[h] = msg[h]
  BY <1>2, <1>4
<1>5. CASE Decide(h)
  <2>1. msg' = msg
    BY <1>5 DEF Decide
  <2>2. verdict'[h] \in ActedOn => verdict'[h] = verdict[h]
    BY <1>0, <1>5 DEF Decide, DecidePayment, DecideRenewal, Reject, Accept, HandlerTypeOK, ActedOn
  <2>3. pc'[h] # "idle" /\ (pc'[h] \in RenewalSteps => FromCalendar(msg[h]))
    BY <1>0, <1>5 DEF Decide, DecidePayment, DecideRenewal, Reject, Accept, Goto,
       HandlerTypeOK, RenewalSteps
  <2>4. CASE FromCalendar(msg[h])
    <3>1. OfCalendar(order(h))
      BY <1>1, <2>4, CalendarKnown DEF FromCalendar, order
    <3> QED BY <2>1, <2>3, <3>1
  <2> QED BY <1>4, <2>1, <2>2, <2>3, <2>4
<1>6. CASE Credit(h)
  <2>1. msg' = msg /\ verdict' = verdict /\ pc'[h] \in {"mark", "renew"}
    BY <1>0, <1>6 DEF Credit, Goto, HandlerTypeOK
  <2>2. CASE pc'[h] = "mark"
    BY <1>4, <2>1, <2>2 DEF RenewalSteps
  <2>3. CASE pc'[h] = "renew"
    <3>1. IsRenewal(order(h)) /\ Paid(order(h))
      BY <1>0, <1>6, <2>3 DEF Credit, Goto, HandlerTypeOK, Holds, PaidSteps
    <3>2. OfCalendar(order(h))
      BY <1>1, <3>1, CalendarKnown DEF Paid, AtGateway
    <3> QED BY <2>1, <2>3, <3>2
  <2> QED BY <2>1, <2>2, <2>3
<1>7. CASE EndCalendar(h) \/ RecordRenewal(h)
  <2>1. msg' = msg /\ pc[h] \in RenewalSteps /\ pc'[h] # "idle"
    BY <1>0, <1>7 DEF EndCalendar, RecordRenewal, RenewalSteps, Goto, HandlerTypeOK
  <2> QED BY <1>2, <2>1
<1>8. CASE Renew(h) /\ ~Throw(h)
  <2>1. msg' = msg /\ pc[h] \in RenewalSteps /\ pc'[h] # "idle"
    BY <1>0, <1>8 DEF Renew, RenewalSteps, Goto, HandlerTypeOK
  <2> QED BY <1>2, <2>1
<1>9. CASE (Open(h) /\ Throw(h)) \/ (Renew(h) /\ Throw(h)) \/ Mark(h)
  BY <1>3, <1>9 DEF Throw, Mark
<1>10. CASE Transition(h)
  <2>1. msg' = msg /\ verdict'[h] = "APPLIED"
    BY <1>0, <1>10 DEF Transition, HandlerTypeOK
  <2>2. pc'[h] \notin RenewalSteps \union {"idle"}
    BY <1>0, <1>10 DEF Transition, AfterTransition, Goto, HandlerTypeOK, RenewalSteps
  <2> QED BY <1>4, <2>1, <2>2 DEF ActedOn
<1>11. CASE \/ SaveCard(h) \/ ReadRunning(h) \/ Fold(h) \/ Deactivate(h)
            \/ ClosePending(h) \/ Grant(h) \/ Revoke(h) \/ Reverse(h)
            \/ (Open(h) /\ ~Throw(h))
  <2>1. msg' = msg /\ verdict' = verdict
    BY <1>11 DEF SaveCard, ReadRunning, Fold, Deactivate, ClosePending, Grant, Revoke,
       Reverse, Open
  <2>2. pc'[h] \notin RenewalSteps \union {"idle"}
    BY <1>0, <1>11 DEF SaveCard, ReadRunning, Fold, Deactivate, ClosePending, Grant,
       Revoke, Reverse, Open, Goto, HandlerTypeOK, RenewalSteps
  <2> QED BY <1>4, <2>1, <2>2
<1> QED BY <1>5, <1>6, <1>7, <1>8, <1>9, <1>10, <1>11 DEF HandlerStep

(* The steps of one request leave the others as they are.                  *)
LEMMA OthersKeep ==
  ASSUME HandlerTypeOK, NEW h \in Handlers, NEW g \in Handlers, g # h,
         HandlerStep(h) \/ Crash(h) \/ \E d \in sent : ReceiveDelivery(h, d)
  PROVE  pc'[g] = pc[g] /\ msg'[g] = msg[g] /\ verdict'[g] = verdict[g]
BY DEF HandlerStep, Decide, DecidePayment, DecideRenewal, Reject, Accept,
   Transition, SaveCard, ReadRunning, Open, Fold, Deactivate, ClosePending,
   Grant, Revoke, Credit, Reverse, EndCalendar, RecordRenewal, Renew, Mark,
   Throw, Forget, Goto, HandlerTypeOK, Crash, ReceiveDelivery

LEMMA WebhookReports ==
  ASSUME Sound, [Next]_vars
  PROVE  ReportsOfCalendars'
<1>0. HandlerTypeOK /\ ReportsOfCalendars
  BY DEF Sound, TypeOK
<1>1. ASSUME NEW g \in Handlers
      PROVE  /\ pc'[g] = "idle" => verdict'[g] = "none"
             /\ verdict'[g] \in ActedOn => OfCalendar(order(g)')
             /\ pc'[g] \in RenewalSteps => OfCalendar(order(g)')
  <2>1. CASE pc'[g] = pc[g] /\ msg'[g] = msg[g] /\ verdict'[g] = verdict[g]
    BY <1>0, <2>1 DEF ReportsOfCalendars, order
  <2>2. CASE GatewayStep \/ Tick \/ UNCHANGED vars
    <3>1. UNCHANGED handlerVars
      BY <2>2 DEF GatewayStep, Tick, vars
    <3> QED BY <2>1, <3>1 DEF handlerVars
  <2>3. ASSUME NEW h \in Handlers,
               HandlerStep(h) \/ Crash(h) \/ \E d \in sent : ReceiveDelivery(h, d), h # g
        PROVE  pc'[g] = pc[g] /\ msg'[g] = msg[g] /\ verdict'[g] = verdict[g]
    BY <1>0, <2>3, OthersKeep
  <2>4. CASE HandlerStep(g)
    BY <2>4, OwnReports DEF order
  <2>5. CASE Crash(g)
    BY <1>0, <2>5 DEF Crash, Forget, Goto, HandlerTypeOK, ActedOn, RenewalSteps
  <2>6. ASSUME NEW d \in sent, ReceiveDelivery(g, d)
        PROVE  pc'[g] = "decide" /\ verdict'[g] = "none"
    BY <1>0, <2>6 DEF ReceiveDelivery, Goto, HandlerTypeOK, ReportsOfCalendars
  <2>7. CASE \E d \in sent : ReceiveDelivery(g, d)
    BY <2>6, <2>7 DEF ActedOn, RenewalSteps
  <2> QED BY <2>1, <2>2, <2>3, <2>4, <2>5, <2>7 DEF Next
<1>2. ASSUME NEW r \in reports' \ reports PROVE OfCalendar(r.id.order)
  <2>1. PICK h \in Handlers : Mark(h)
    BY <1>2 DEF Next, GatewayStep, ReceiveDelivery, HandlerStep, Decide, Transition, SaveCard,
       ReadRunning, Open, Fold, Deactivate, ClosePending, Grant, Revoke, Credit, Reverse,
       EndCalendar, RecordRenewal, Renew, Throw, Crash, Tick, vars, auditVars
  <2>2. verdict[h] \in ActedOn /\ r = [id |-> ClaimedId(msg[h]), verdict |-> verdict[h]]
    BY <1>2, <2>1 DEF Mark
  <2>3. r.id.order = order(h)
    BY <2>2 DEF ClaimedId, order
  <2> QED BY <1>0, <2>2, <2>3 DEF ReportsOfCalendars
<1>3. \A r \in reports' : OfCalendar(r.id.order)
  BY <1>0, <1>2 DEF ReportsOfCalendars
<1>4. \A o : OfCalendar(o)' <=> OfCalendar(o)
  BY DEF OfCalendar, IsRenewal, Checkouts
<1> QED BY <1>1, <1>3, <1>4 DEF ReportsOfCalendars

LEMMA SurroundingReports ==
  ASSUME Sound, Surroundings
  PROVE  ReportsOfCalendars'
<1>1. UNCHANGED <<pc, msg, verdict, reports>>
  BY SurroundingsApart DEF apartVars, auditVars, handlerVars
<1> QED BY <1>1 DEF Sound, ReportsOfCalendars, OfCalendar, IsRenewal, Checkouts, order
-----------------------------------------------------------------------------
(* The invariant of the whole application, kept by every step of it.       *)
LEMMA SoundStep ==
  ASSUME Sound, [SystemStep]_allVars
  PROVE  Sound'
<1>1. ASSUME [Next]_vars, UNCHANGED appVars PROVE Sound'
  <2>1. TypeOK' /\ Control'
    BY <1>1, StepType, StepControl DEF Sound
  <2>2. AppTypeOK' /\ Forms' /\ ReportsOfCalendars'
    BY <1>1, WebhookAppType, WebhookForms, WebhookReports DEF Sound
  <2> QED BY <2>1, <2>2 DEF Sound
<1>2. CASE Surroundings
  BY <1>2, SurroundingType, SurroundingControl, SurroundingAppType, SurroundingForms,
     SurroundingReports DEF Sound
<1>3. CASE UNCHANGED allVars
  BY <1>1, <1>3 DEF allVars
<1>4. CASE WebhookStep /\ UNCHANGED appVars
  BY <1>1, <1>4, WebhookSteps
<1> QED BY <1>2, <1>3, <1>4 DEF SystemStep

LEMMA AppInitSound ==
  ASSUME AppInit
  PROVE  Sound
<1>1. NoRow \in SubscriptionRow
  BY DEF NoRow, SubscriptionRow, SubscriptionRowStates, SubscriptionStatuses, Cancelers
<1>2. subs \in [Subs -> SubscriptionRow]
  BY <1>1 DEF AppInit
<1>3. TypeOK
  BY <1>2, NoneAssumption, WebhookAssumption
     DEF AppInit, TypeOK, StoreTypeOK, GatewayTypeOK, AuditTypeOK, HandlerTypeOK,
         PurchaseRow, LedgerRow, PaymentRowStates, PaymentStatuses,
         GatewayStates, Steps, Verdicts, FoldRead, NoFold
<1>4. Control
  BY NoiseAssumption, WebhookAssumption
     DEF AppInit, Control, SignedIsTrue, ForeignUnknown, Holds, AmountRefused, Captured,
         PaidSteps, SubscriptionSteps, RenewalSteps, OpeningSteps
<1>5. AppTypeOK
  BY DEF AppInit, AppTypeOK
<1>6. ReportsOfCalendars
  BY DEF AppInit, ReportsOfCalendars, ActedOn, RenewalSteps
<1>7. Forms
  <2>1. \A o \in Orders : ~AtGateway(o)
    BY DEF AppInit, AtGateway
  <2>2. \A o \in Checkouts : o \in Orders /\ subs[SubOf[o]].status = "NONE"
    BY CheckoutFacts DEF AppInit, NoRow
  <2> QED BY <2>1, <2>2 DEF Forms
<1> QED BY <1>3, <1>4, <1>5, <1>6, <1>7 DEF Sound

LEMMA AppInvariant == AppSpec => []Sound
<1>1. AppInit => Sound
  BY AppInitSound
<1>2. Sound /\ [AppNext]_allVars => Sound'
  BY SoundStep, AppSteps
<1> QED BY <1>1, <1>2, PTL DEF AppSpec

(* Every variable keeps its type, among checkouts, cancellations and cron    *)
(* runs too.                                                               *)
THEOREM AppTyping == AppSpec => [](TypeOK /\ AppTypeOK)
<1>1. Sound => TypeOK /\ AppTypeOK
  BY DEF Sound
<1> QED BY <1>1, AppInvariant, PTL

(* The steps of the webhook among those of the whole application.          *)
LEMMA SystemCases ==
  ASSUME [SystemStep]_allVars
  PROVE  ([Next]_vars /\ UNCHANGED appVars) \/ Surroundings
BY WebhookSteps DEF SystemStep, allVars

LEMMA OneActiveStep ==
  ASSUME Sound, OneActivePerPlan, [SystemStep]_allVars
  PROVE  OneActivePerPlan'
<1>1. CASE [Next]_vars
  BY <1>1, StepOneActive DEF Sound
<1>2. CASE Surroundings
  <2>1. \A s \in Subs : subs'[s].status = "ACTIVE" => subs[s].status = "ACTIVE"
    BY <1>2, SurroundingRows DEF Expires, Begins, Abandons, Cancels
  <2> QED BY <2>1 DEF OneActivePerPlan
<1> QED BY <1>1, <1>2, SystemCases

(* One ACTIVE subscription per user and plan, also while the plan is bought  *)
(* again, cancelled and expired.                                           *)
THEOREM AppOneActive == AppSpec => []OneActivePerPlan
<1>1. AppInit => OneActivePerPlan
  BY DEF AppInit, OneActivePerPlan, NoRow
<1>2. Sound /\ OneActivePerPlan /\ [AppNext]_allVars => OneActivePerPlan'
  BY OneActiveStep, AppSteps
<1> QED BY <1>1, <1>2, AppInvariant, PTL DEF AppSpec

LEMMA LedgerStep ==
  ASSUME Sound, AllBooked, [SystemStep]_allVars
  PROVE  AllBooked'
<1>1. CASE [Next]_vars
  BY <1>1, StepBooked DEF Sound
<1>2. CASE Surroundings
  <2>1. ledger' = ledger /\ earnings' = earnings
    BY <1>2, SurroundingsApart DEF apartVars
  <2> QED BY <2>1 DEF AllBooked, Booked, RowsOf
<1> QED BY <1>1, <1>2, SystemCases

(* Only movements touch the books: whatever checkouts, cancellations, sweeps *)
(* and expiries do around them, the totals are the sums of the rows.       *)
THEOREM AppLedgerAddsUp == AppSpec => []EarningsMatchLedger
<1>1. AppInit => AllBooked
  BY BookedAtFirst DEF AppInit
<1>2. Sound /\ AllBooked /\ [AppNext]_allVars => AllBooked'
  BY LedgerStep, AppSteps
<1>3. Sound /\ AllBooked => EarningsMatchLedger
  BY BookedAsStated DEF Sound
<1> QED BY <1>1, <1>2, <1>3, AppInvariant, PTL DEF AppSpec

LEMMA UnpaidStep ==
  ASSUME Sound, NothingUnpaid, [SystemStep]_allVars
  PROVE  NothingUnpaid'
<1>1. CASE [Next]_vars
  BY <1>1, StepUnpaid DEF Sound
<1>2. CASE Surroundings
  <2>1. UNCHANGED <<ledger, purchases>>
    BY <1>2, SurroundingsApart DEF apartVars
  <2>2. \A s \in Subs : subs'[s].status = "ACTIVE" => subs[s].status = "ACTIVE"
    BY <1>2, SurroundingRows DEF Expires, Begins, Abandons, Cancels
  <2>3. \A o \in Orders : payments'[o] \in Captured => payments[o] \in Captured
    BY <1>2, SurroundingPayments DEF Captured, Reversing
  <2>4. \A o \in Orders : Paid(o) => Paid(o)'
    BY <1>2, SurroundingPaid
  <2>5. NoUnpaidMoney'
    BY <2>1, <2>3, <2>4 DEF NothingUnpaid, NoUnpaidMoney, Earned, TakenBack
  <2>6. NoUnpaidSubscription'
    BY <2>2, <2>4 DEF NothingUnpaid, NoUnpaidSubscription
  <2>7. NoUnpaidTicket'
    <3>1. \A t \in Tickets : purchases[t].payment \in Orders \union {None}
      BY DEF Sound, TypeOK, StoreTypeOK, PurchaseRow
    <3> QED BY <2>1, <2>4, <3>1 DEF NothingUnpaid, NoUnpaidTicket
  <2> QED BY <2>5, <2>6, <2>7 DEF NothingUnpaid
<1> QED BY <1>1, <1>2, SystemCases

(* Nothing is given for an order the gateway never approved, by a sweep's    *)
(* answer, a refund or a second checkout either.                           *)
THEOREM AppNothingForUnpaid == AppSpec => []NothingUnpaid
<1>1. AppInit => NothingUnpaid
  BY DEF AppInit, NothingUnpaid, NoUnpaidMoney, NoUnpaidSubscription, NoUnpaidTicket,
         Earned, TakenBack, Captured, Reversing, NoRow
<1>2. Sound /\ NothingUnpaid /\ [AppNext]_allVars => NothingUnpaid'
  BY UnpaidStep, AppSteps
<1> QED BY <1>1, <1>2, AppInvariant, PTL DEF AppSpec

(* A row a person cancelled or the system folded or gave up is never         *)
(* reopened, whatever is bought, swept or expired around it.               *)
THEOREM AppShutRows == AppSpec => ShutRowsStayShut
<1>1. Sound /\ [AppNext]_allVars =>
        [\A s \in Subs :
           subs[s].status = "CANCELED" /\ subs[s].canceledBy \in {"USER", "SYSTEM"}
             => subs'[s].status = "CANCELED"]_vars
  <2> SUFFICES ASSUME Sound, [SystemStep]_allVars, NEW s \in Subs,
                      subs[s].status = "CANCELED", subs[s].canceledBy \in {"USER", "SYSTEM"}
               PROVE  subs'[s].status = "CANCELED"
    BY AppSteps
  <2>1. CASE [Next]_vars
    BY <2>1, StepShut DEF Sound
  <2>2. CASE Surroundings
    BY <2>2, SurroundingRows DEF Expires, Begins, Abandons, Cancels
  <2> QED BY <2>1, <2>2, SystemCases
<1> QED BY <1>1, AppInvariant, PTL DEF AppSpec, ShutRowsStayShut

-----------------------------------------------------------------------------
(* What is ACTIVE after a step has kept its end or been given a new period.  *)
LEMMA ActiveEnds ==
  ASSUME Sound, [SystemStep]_allVars, NEW s \in Subs, subs'[s].status = "ACTIVE"
  PROVE  \/ subs[s].status = "ACTIVE" /\ subs'[s].end = subs[s].end
         \/ subs'[s].end >= now + Period
<1>0. subs[s].end \in Nat /\ now \in Nat /\ Period \in Nat
  BY AttributeAssumption DEF Sound, TypeOK, StoreTypeOK, SubscriptionRow
<1>1. CASE [Next]_vars
  <2>1. CASE subs'[s] = subs[s]
    BY <2>1
  <2>2. ASSUME NEW h \in Handlers, Writes(h, s)
        PROVE  \/ subs[s].status = "ACTIVE" /\ subs'[s].end = subs[s].end
               \/ subs'[s].end >= now + Period
    <3>1. now + Period >= now + Period
      BY <1>0
    <3> QED BY <2>2, <3>1 DEF Writes, SameBut, Strikes, Closes, FoldsInto, FoldsAway, Opens,
               Renews
  <2> QED BY <1>1, <2>1, <2>2, WebhookRows DEF Sound
<1>2. CASE Surroundings
  BY <1>2, SurroundingRows DEF Expires, Begins, Abandons, Cancels
<1> QED BY <1>1, <1>2, SystemCases

(* The clock only ticks while no form, cancellation or cron run is open.    *)
LEMMA ClockSteps ==
  ASSUME Sound, [SystemStep]_allVars
  PROVE  \/ now' = now
         \/ AppIdle /\ now' = now + 1 /\ UNCHANGED <<dbVars, appVars>>
<1>1. CASE Surroundings \/ UNCHANGED allVars
  BY <1>1, SurroundingsApart DEF apartVars, allVars, vars
<1>2. CASE WebhookStep /\ UNCHANGED appVars
  BY <1>2 DEF WebhookStep, GatewayStep, ReceiveDelivery, HandlerStep, Decide,
     Transition, SaveCard, ReadRunning, Open, Fold, Deactivate, ClosePending, Grant,
     Revoke, Credit, Reverse, EndCalendar, RecordRenewal, Renew, Throw, Mark, Crash, Tick
<1> QED BY <1>1, <1>2 DEF SystemStep

(* How a checkout comes to be looking at the running rows of its plan.      *)
LEMMA CheckingSteps ==
  ASSUME Sound, Surroundings, NEW o \in Checkouts, form'[o] = "checking"
  PROVE  \/ form[o] = "closed" /\ lapsed'[o] = LapsedOf({PlanOf[SubOf[o]]})
         \/ /\ form[o] = "checking"
            /\ \A s \in Listed(o) : s \in Listed(o)' \/ CloseLapsed(o, s)
<1>0. /\ form \in [Checkouts -> {"closed", "checking", "asking", "open",
                                 "conflict", "refused", "lost"}]
      /\ lapsed \in [Closers -> SUBSET [row : Subs, end : Nat]]
      /\ o \in Closers
  BY DEF Sound, AppTypeOK, Closers
<1>1. CASE \E p \in Checkouts : StartSubscriptionCheckout(p)
  BY <1>0, <1>1 DEF StartSubscriptionCheckout, Listed
<1>2. CASE \E c \in Closers, s \in Subs : CloseLapsed(c, s)
  <2>1. PICK c \in Closers, x \in Subs : CloseLapsed(c, x)
    BY <1>2
  <2>2. form' = form
    BY <2>1 DEF CloseLapsed
  <2>3. CASE c # o
    <3>1. lapsed'[o] = lapsed[o]
      BY <1>0, <2>1, <2>3 DEF CloseLapsed
    <3> QED BY <2>2, <3>1 DEF Listed
  <2>4. CASE c = o
    <3>1. lapsed'[o] = {r \in lapsed[o] : r.row # x}
      BY <1>0, <2>1, <2>4 DEF CloseLapsed
    <3>2. \A s \in Listed(o) : s = x \/ s \in Listed(o)'
      BY <3>1 DEF Listed
    <3> QED BY <2>1, <2>2, <2>4, <3>2
  <2> QED BY <2>3, <2>4
<1>3. CASE FindLapsed
  BY <1>0, <1>3 DEF FindLapsed, Listed
<1>4. ASSUME ~ \E p \in Checkouts : StartSubscriptionCheckout(p),
             ~ \E c \in Closers, s \in Subs : CloseLapsed(c, s),
             ~ FindLapsed
      PROVE  lapsed' = lapsed /\ form[o] = "checking"
  BY <1>0, <1>4 DEF Surroundings, CheckoutStep, RefuseSecond,
     CreateCheckout, GatewayOpensCheckout, GatewayRefusesCheckout, DieBeforeGateway,
     CancelSubscription, StopBeforeCancel, WriteCancellation, ActOnReport,
     CronStep, SweepStaleCheckout, StopCanceledCalendar, GiveUpCanceling, appVars
<1> QED BY <1>1, <1>2, <1>3, <1>4 DEF Listed

LEMMA RunningCountedStep ==
  ASSUME Sound, RunningCounted, [SystemStep]_allVars
  PROVE  RunningCounted'
<1>0. /\ now \in Nat /\ Period \in Nat /\ Period > 0 /\ Grace \in Nat
      /\ \A s \in Subs : subs[s].end \in Nat /\ subs'[s].end \in Nat
  BY AttributeAssumption, ScheduleAssumption, SoundStep
     DEF Sound, TypeOK, StoreTypeOK, SubscriptionRow
<1>1. ASSUME NEW s \in Subs, subs'[s].status = "ACTIVE" PROVE subs'[s].end > 0
  BY <1>0, <1>1, ActiveEnds DEF RunningCounted
<1>2. ASSUME NEW o \in Checkouts, form'[o] = "checking",
             NEW s \in Subs, PlanOf[s] = PlanOf[SubOf[o]], subs'[s].status = "ACTIVE"
      PROVE  s \in Listed(o)' \/ now' < subs'[s].end + Grace
  <2>1. CASE now' # now
    BY <1>2, <2>1, ClockSteps DEF AppIdle, appVars
  <2>2. CASE now' = now /\ subs'[s].end >= now + Period
    BY <1>0, <2>2
  <2>3. CASE /\ now' = now
             /\ subs[s].status = "ACTIVE" /\ subs'[s].end = subs[s].end
             /\ form[o] = "checking" /\ (s \in Listed(o) => s \in Listed(o)')
    BY <1>2, <2>3 DEF RunningCounted, RunningOf
  <2>4. CASE /\ Surroundings /\ now' = now
             /\ subs[s].status = "ACTIVE" /\ subs'[s].end = subs[s].end
    <3>1. CASE form[o] = "closed" /\ lapsed'[o] = LapsedOf({PlanOf[SubOf[o]]})
      <4>1. CASE Lapsed(s)
        <5> DEFINE r == [row |-> s, end |-> subs[s].end]
        <5>1. s \in {x \in Subs : /\ PlanOf[x] \in {PlanOf[SubOf[o]]}
                                 /\ subs[x].status = "ACTIVE" /\ Lapsed(x)}
          BY <1>2, <2>4, <4>1
        <5>2. r \in LapsedOf({PlanOf[SubOf[o]]}) /\ r.row = s
          BY <5>1 DEF LapsedOf
        <5>3. s \in Listed(o)'
          BY <3>1, <5>2 DEF Listed
        <5> QED BY <5>3
      <4>2. CASE ~Lapsed(s)
        BY <1>0, <2>4, <4>2 DEF Lapsed, RunningCounted
      <4> QED BY <4>1, <4>2
    <3>2. ~CloseLapsed(o, s)
      BY <1>2, <2>4 DEF CloseLapsed, Sound, TypeOK, StoreTypeOK, SubscriptionRow
    <3> QED BY <1>2, <2>3, <2>4, <3>1, <3>2, CheckingSteps
  <2>5. CASE UNCHANGED appVars
    BY <1>2, <2>1, <2>2, <2>3, <2>5, ActiveEnds DEF appVars, Listed
  <2> QED BY <1>2, <2>1, <2>2, <2>4, <2>5, ActiveEnds, SystemCases
<1> QED BY <1>1, <1>2 DEF RunningCounted, RunningOf

LEMMA RunningCountedInit ==
  ASSUME AppInit
  PROVE  RunningCounted
BY DEF AppInit, RunningCounted, NoRow

(* Buying again is refused only while a month of the plan is running, or its *)
(* renewal may still arrive: the buyer's own lapsed rows were closed first.  *)
THEOREM ConflictsAreReal == AppSpec => ConflictOnlyWhileRunning
<1>1. AppInit => RunningCounted
  BY RunningCountedInit
<1>2. Sound /\ RunningCounted /\ [AppNext]_allVars => RunningCounted'
  BY RunningCountedStep, AppSteps
<1>3. Sound /\ RunningCounted /\ [AppNext]_allVars =>
        [\A o \in Checkouts :
           form[o] = "checking" /\ form'[o] = "conflict" =>
             \E s \in RunningOf(o) : now < subs[s].end + Grace]_allVars
  <2> SUFFICES ASSUME Sound, RunningCounted, [SystemStep]_allVars, NEW o \in Checkouts,
                      form[o] = "checking", form'[o] = "conflict"
               PROVE  \E s \in RunningOf(o) : now < subs[s].end + Grace
    BY AppSteps
  <2>0. form \in [Checkouts -> {"closed", "checking", "asking", "open",
                                "conflict", "refused", "lost"}]
    BY DEF Sound, AppTypeOK
  <2>1. Surroundings
    BY SystemCases DEF appVars
  <2>2. RefuseSecond(o)
    BY <2>0, <2>1 DEF Surroundings, CheckoutStep, StartSubscriptionCheckout, RefuseSecond,
       CreateCheckout, GatewayOpensCheckout, GatewayRefusesCheckout, DieBeforeGateway,
       CloseLapsed, CancelSubscription, StopBeforeCancel, WriteCancellation, ActOnReport,
       CronStep, FindLapsed, SweepStaleCheckout, StopCanceledCalendar, GiveUpCanceling, appVars
  <2> QED BY <2>2 DEF RefuseSecond, RunningCounted, Listed
<1> QED BY <1>1, <1>2, <1>3, AppInvariant, PTL DEF AppSpec, ConflictOnlyWhileRunning

-----------------------------------------------------------------------------
LEMMA CrashesCount ==
  ASSUME Sound, [SystemStep]_allVars, crashes' = 0
  PROVE  crashes = 0 /\ ~ \E h \in Handlers : Crash(h)
<1>1. crashes \in Nat
  BY DEF Sound, TypeOK, AuditTypeOK
<1>2. \A h \in Handlers : ~Crash(h)
  BY <1>1 DEF Crash
<1>3. CASE Surroundings
  BY <1>2, <1>3, SurroundingsApart DEF apartVars, auditVars
<1>4. CASE [Next]_vars
  <2>1. crashes' = crashes
    BY <1>2, <1>4 DEF Next, GatewayStep, ReceiveDelivery, HandlerStep, Decide,
       Transition, SaveCard, ReadRunning, Open, Fold, Deactivate, ClosePending, Grant,
       Revoke, Credit, Reverse, EndCalendar, RecordRenewal, Renew, Throw, Mark, Tick,
       vars, auditVars
  <2> QED BY <1>2, <2>1
<1> QED BY <1>3, <1>4, SystemCases

(* A payment's status is written by the step of its own request.           *)
LEMMA PaymentSteps ==
  ASSUME Sound, [Next]_vars, NEW o \in Orders, payments'[o] # payments[o]
  PROVE  \E h \in Handlers :
           /\ order(h) = o /\ msg'[h] = msg[h]
           /\ \/ Transition(h) /\ payments'[o] = msg[h].status /\ payments[o] = seen[h]
              \/ RecordRenewal(h) /\ ~Found(o) /\ payments'[o] = "SUCCEEDED"
<1>0. payments \in [Orders -> PaymentRowStates]
  BY DEF Sound, TypeOK, StoreTypeOK
<1>1. PICK h \in Handlers : Transition(h) \/ RecordRenewal(h)
  BY DEF Next, GatewayStep, HandlerStep, Decide, SaveCard, ReadRunning, Open, Fold,
     Deactivate, ClosePending, Grant, Revoke, Credit, Reverse, EndCalendar, Renew,
     Mark, Crash, ReceiveDelivery, Throw, Tick, vars, dbVars
<1>2. CASE Transition(h)
  BY <1>0, <1>2 DEF Transition, TransitionPayment
<1>3. CASE RecordRenewal(h)
  BY <1>0, <1>3 DEF RecordRenewal, RecordRenewalPayment, Found
<1> QED BY <1>1, <1>2, <1>3

LEMMA ClosingInHandStep ==
  ASSUME Sound, ClosingInHand, [SystemStep]_allVars
  PROVE  ClosingInHand'
<1> SUFFICES ASSUME crashes' = 0, NEW o \in Checkouts,
                    payments'[o] \in Closing, subs'[SubOf[o]].status = "PENDING"
             PROVE  \E h \in Handlers : pc'[h] = "closePending" /\ order(h)' = o
  BY DEF ClosingInHand
<1>0. /\ o \in Orders /\ SubOf[o] \in Subs /\ SubOf[o] # None
      /\ crashes = 0 /\ HandlerTypeOK
  BY CheckoutFacts, CrashesCount, NoneAssumption DEF Sound, TypeOK
<1>1. CASE [Next]_vars
  <2>1. subs[SubOf[o]].status = "PENDING"
    BY <1>0, <1>1, WebhookRows DEF Sound, Writes, SameBut, Strikes, Closes, FoldsInto,
       FoldsAway, Opens, Renews
  <2>2. CASE payments'[o] = payments[o]
    <3>1. PICK h \in Handlers : pc[h] = "closePending" /\ order(h) = o
      BY <1>0, <2>1, <2>2 DEF ClosingInHand
    <3>2. CASE HandlerStep(h)
      <4>1. ClosePending(h)
        BY <3>1, <3>2 DEF HandlerStep, Decide, Transition, SaveCard, ReadRunning, Open,
           Fold, Deactivate, Grant, Revoke, Credit, Reverse, EndCalendar, RecordRenewal,
           Renew, Mark
      <4>2. sub(h) = SubOf[o] /\ subs \in [Subs -> SubscriptionRow]
        BY <3>1 DEF order, sub, Sound, TypeOK, StoreTypeOK
      <4>3. subs' = [subs EXCEPT ![SubOf[o]] = [@ EXCEPT !.status = "CANCELED",
                                                        !.canceledBy = "PAYMENT"]]
        BY <2>1, <4>1, <4>2 DEF ClosePending, ClosePendingSubscription, CloseSubscription
      <4>4. subs'[SubOf[o]] = [subs[SubOf[o]] EXCEPT !.status = "CANCELED",
                                                    !.canceledBy = "PAYMENT"]
        BY <1>0, <4>2, <4>3
      <4>5. subs'[SubOf[o]].status = "CANCELED"
        BY <1>0, <4>2, <4>4, RowParts
      <4> QED BY <4>5
    <3>3. CASE ~HandlerStep(h)
      <4>1. ASSUME NEW g \in Handlers, NEW d \in sent, ReceiveDelivery(g, d) PROVE g # h
        BY <3>1, <4>1 DEF ReceiveDelivery
      <4>2. CASE UNCHANGED handlerVars
        BY <3>1, <4>2 DEF handlerVars, order
      <4>3. GatewayStep \/ Tick \/ UNCHANGED vars => UNCHANGED handlerVars
        BY DEF GatewayStep, Tick, vars
      <4>4. ~Crash(h)
        BY CrashesCount
      <4>5. ASSUME NEW g \in Handlers, g # h,
                   HandlerStep(g) \/ Crash(g) \/ \E d \in sent : ReceiveDelivery(g, d)
            PROVE  pc'[h] = pc[h] /\ msg'[h] = msg[h]
        BY <1>0, <4>5, OthersKeep
      <4>6. UNCHANGED handlerVars \/ (pc'[h] = pc[h] /\ msg'[h] = msg[h])
        BY <1>1, <3>3, <4>1, <4>3, <4>4, <4>5 DEF Next
      <4> QED BY <3>1, <4>2, <4>6 DEF order
    <3> QED BY <3>2, <3>3
  <2>3. CASE payments'[o] # payments[o]
    <3>1. PICK h \in Handlers : /\ order(h) = o /\ msg'[h] = msg[h]
                                /\ Transition(h) /\ payments'[o] = msg[h].status
      BY <1>0, <1>1, <2>3, PaymentSteps DEF Closing
    <3>2. AfterTransition(order(h), msg[h].status) = {"closePending"}
      BY <1>0, <3>1 DEF AfterTransition, Closing, Reversing
    <3>3. pc'[h] = "closePending"
      BY <1>0, <3>1, <3>2 DEF Transition, Goto, HandlerTypeOK
    <3> QED BY <3>1, <3>3 DEF order
  <2> QED BY <2>2, <2>3
<1>2. CASE Surroundings
  <2>1. UNCHANGED <<pc, msg>>
    BY <1>2, SurroundingsApart DEF apartVars, handlerVars
  <2>2. ~Begins(SubOf[o])
    <3> SUFFICES ASSUME Begins(SubOf[o]) PROVE FALSE
      OBVIOUS
    <3>1. CreateCheckout(o)
      BY CheckoutFacts DEF Begins
    <3>2. payments' = [payments EXCEPT ![o] = "CREATED"]
      BY <3>1 DEF CreateCheckout
    <3> QED BY <1>0, <3>2 DEF Closing, Sound, TypeOK, StoreTypeOK
  <2>3. subs[SubOf[o]].status = "PENDING" /\ ~Abandons(SubOf[o])
    BY <1>0, <1>2, <2>2, SurroundingRows DEF Expires, Abandons, Cancels
  <2>4. ~GatewayRefusesCheckout(o)
    <3> SUFFICES ASSUME GatewayRefusesCheckout(o) PROVE FALSE
      OBVIOUS
    <3>1. subs' = [subs EXCEPT ![SubOf[o]] = [@ EXCEPT !.status = "CANCELED",
                                                      !.canceledBy = "SYSTEM"]]
      BY <2>3 DEF GatewayRefusesCheckout, AbandonRefusedCheckout
    <3>2. subs[SubOf[o]] \in SubscriptionRow /\ subs \in [Subs -> SubscriptionRow]
      BY <1>0 DEF Sound, TypeOK, StoreTypeOK
    <3>3. subs'[SubOf[o]] = [subs[SubOf[o]] EXCEPT !.status = "CANCELED",
                                                  !.canceledBy = "SYSTEM"]
      BY <1>0, <3>1, <3>2
    <3>4. subs'[SubOf[o]].status = "CANCELED"
      BY <3>2, <3>3, RowFields
    <3> QED BY <3>4
  <2>5. payments[o] \in Closing
    BY <1>0, <1>2, <2>4, SurroundingPayments DEF Closing
  <2> QED BY <1>0, <2>1, <2>3, <2>5 DEF ClosingInHand, order
<1> QED BY <1>1, <1>2, SystemCases

(* As long as no request has died, a payment that came to nothing leaves no  *)
(* subscription waiting for it once the requests are answered: whoever       *)
(* closes the payment closes the row, or is about to.                       *)
THEOREM NothingStuck == AppSpec => [](crashes = 0 => NoStuckPending)
<1>1. AppInit => ClosingInHand
  BY DEF AppInit, ClosingInHand, Closing, Checkouts
<1>2. Sound /\ ClosingInHand /\ [AppNext]_allVars => ClosingInHand'
  BY ClosingInHandStep, AppSteps
<1>3. ClosingInHand => (crashes = 0 => NoStuckPending)
  BY DEF ClosingInHand, NoStuckPending, AllIdle
<1> QED BY <1>1, <1>2, <1>3, AppInvariant, PTL DEF AppSpec

-----------------------------------------------------------------------------
(* A request holds the id it has claimed, and only a decline strikes a       *)
(* calendar.                                                               *)
LEMMA DeclinesClaimedStep ==
  ASSUME Sound, DeclinesClaimed, [SystemStep]_allVars
  PROVE  DeclinesClaimed'
<1>0. HandlerTypeOK
  BY DEF Sound, TypeOK
<1>1. CASE Surroundings
  <2>1. UNCHANGED <<pc, msg, events>>
    BY <1>1, SurroundingsApart DEF apartVars, handlerVars, auditVars
  <2> QED BY <2>1 DEF DeclinesClaimed, ClaimedId
<1>2. CASE [Next]_vars
  <2>1. ASSUME NEW g \in Handlers, pc'[g] # "idle"
        PROVE  /\ ClaimedId(msg'[g]) \in events'
               /\ pc'[g] = "endCalendar" => msg'[g].status = "FAILED"
    <3>1. CASE pc'[g] = pc[g] /\ msg'[g] = msg[g]
      BY <1>2, <2>1, <3>1, ReportsStay DEF DeclinesClaimed
    <3>2. CASE GatewayStep \/ Tick \/ UNCHANGED vars
      <4>1. UNCHANGED handlerVars
        BY <3>2 DEF GatewayStep, Tick, vars
      <4> QED BY <3>1, <4>1 DEF handlerVars
    <3>3. ASSUME NEW h \in Handlers,
                 HandlerStep(h) \/ Crash(h) \/ \E d \in sent : ReceiveDelivery(h, d), h # g
          PROVE  pc'[g] = pc[g] /\ msg'[g] = msg[g]
      BY <1>0, <3>3, OthersKeep
    <3>4. ASSUME NEW d \in sent, ReceiveDelivery(g, d)
          PROVE  msg'[g] = d /\ pc'[g] = "decide" /\ ClaimedId(d) \in events'
      BY <1>0, <3>4 DEF ReceiveDelivery, Goto, HandlerTypeOK
    <3>5. CASE Crash(g)
      BY <1>0, <2>1, <3>5 DEF Crash, Forget, Goto, HandlerTypeOK
    <3>6. CASE HandlerStep(g)
      <4>1. pc[g] # "idle" /\ msg'[g] = msg[g]
        BY <1>0, <2>1, <3>6 DEF HandlerStep, Decide, Transition, SaveCard, ReadRunning,
           Open, Fold, Deactivate, ClosePending, Grant, Revoke, Credit, Reverse,
           EndCalendar, RecordRenewal, Renew, Mark, Throw, Forget, Goto, HandlerTypeOK
      <4>2. ASSUME pc'[g] = "endCalendar" PROVE msg[g].status = "FAILED"
        <5>1. Decide(g)
          BY <1>0, <3>6, <4>2 DEF HandlerStep, Transition, AfterTransition, SaveCard,
             ReadRunning, Open, Fold, Deactivate, ClosePending, Grant, Revoke, Credit,
             Reverse, EndCalendar, RecordRenewal, Renew, Mark, Throw, Forget, Goto,
             HandlerTypeOK
        <5> QED BY <1>0, <4>2, <5>1 DEF Decide, DecidePayment, DecideRenewal, Reject,
                   Accept, Goto, HandlerTypeOK
      <4> QED BY <1>2, <4>1, <4>2, ReportsStay DEF DeclinesClaimed
    <3> QED BY <1>2, <3>1, <3>2, <3>3, <3>4, <3>5, <3>6 DEF Next
  <2>2. \A d : ClaimedId(d)' = ClaimedId(d)
    BY DEF ClaimedId
  <2> QED BY <2>1, <2>2 DEF DeclinesClaimed
<1> QED BY <1>1, <1>2, SystemCases

(* A calendar stopped stays stopped, and a decline is never forgotten.      *)
LEMMA SafeStays ==
  ASSUME Sound, [SystemStep]_allVars
  PROVE  /\ stopped \subseteq stopped'
         /\ \A s \in Subs : Safe(s) => Safe(s)'
<1>1. stopped \subseteq stopped'
  <2>1. CASE Surroundings
    BY <2>1 DEF Surroundings, CheckoutStep, StartSubscriptionCheckout, RefuseSecond,
       CreateCheckout, GatewayOpensCheckout, GatewayRefusesCheckout, DieBeforeGateway,
       CloseLapsed, CancelSubscription, StopBeforeCancel, WriteCancellation, ActOnReport,
       SettleDeclinedRenewal, SettleUnwantedRenewal, StopIsAnswered, CronStep, FindLapsed,
       SweepStaleCheckout, StopCanceledCalendar, GiveUpCanceling, appVars
  <2>2. CASE UNCHANGED appVars
    BY <2>2 DEF appVars
  <2> QED BY <2>1, <2>2, SystemCases
<1>2. events \subseteq events'
  BY SystemCases, ReportsStay, SurroundingsApart DEF apartVars, auditVars
<1>3. \A s \in Subs : Openers(s)' = Openers(s)
  BY DEF Openers, Checkouts, IsRenewal
<1>4. \A o : IsRenewal(o)' = IsRenewal(o)
  BY DEF IsRenewal
<1>5. \A s \in Subs : Declined(s) => Declined(s)'
  BY <1>2, <1>4 DEF Declined
<1> QED BY <1>1, <1>3, <1>5 DEF Safe

(* A request at endCalendar carries the decline it has claimed.            *)
LEMMA StrikeIsDeclined ==
  ASSUME Sound, DeclinesClaimed, NEW h \in Handlers, pc[h] = "endCalendar"
  PROVE  Declined(sub(h))
<1>1. /\ ClaimedId(msg[h]) \in events /\ msg[h].status = "FAILED"
      /\ IsRenewal(order(h))
  BY DEF DeclinesClaimed, Sound, Control, Holds, RenewalSteps
<1>2. /\ ClaimedId(msg[h]).status = "FAILED"
      /\ ClaimedId(msg[h]).order = order(h)
      /\ SubOf[order(h)] = sub(h)
  BY <1>1 DEF ClaimedId, order, sub
<1> QED BY <1>1, <1>2 DEF Declined


(* The row of a checkout whose form got past the check exists.             *)
LEMMA CreatedRow ==
  ASSUME Sound, NEW o \in Checkouts, CreateCheckout(o)
  PROVE  subs'[SubOf[o]].status = "PENDING"
<1>1. NoRow \in SubscriptionRow
  BY DEF NoRow, SubscriptionRow, SubscriptionRowStates, SubscriptionStatuses, Cancelers
<1>2. PICK r \in SubscriptionRow : r = NoRow
  BY <1>1
<1>3. subs' = [subs EXCEPT ![SubOf[o]] =
                 [r EXCEPT !.status = "PENDING", !.calendar = Recurring]]
  BY <1>2 DEF CreateCheckout
<1>4. SubOf[o] \in Subs /\ subs \in [Subs -> SubscriptionRow]
  BY CheckoutFacts DEF Sound, TypeOK, StoreTypeOK
<1>5. subs'[SubOf[o]] = [r EXCEPT !.status = "PENDING", !.calendar = Recurring]
  BY <1>3, <1>4
<1> QED BY <1>5, RowFields

LEMMA RowsExist ==
  ASSUME Sound, Stopping, [SystemStep]_allVars, NEW o \in Checkouts,
         form'[o] \notin {"closed", "checking", "conflict"}
  PROVE  subs'[SubOf[o]].status # "NONE"
<1>0. /\ SubOf[o] \in Subs
      /\ form \in [Checkouts -> {"closed", "checking", "asking", "open",
                                 "conflict", "refused", "lost"}]
  BY CheckoutFacts DEF Sound, AppTypeOK
<1>1. CASE CreateCheckout(o)
  BY <1>1, CreatedRow
<1>2. CASE ~CreateCheckout(o)
  <2>1. CASE Surroundings
    <3>1. form[o] \notin {"closed", "checking", "conflict"}
      BY <1>0, <1>2, <2>1 DEF Surroundings, CheckoutStep, StartSubscriptionCheckout,
         RefuseSecond, CreateCheckout, GatewayOpensCheckout, GatewayRefusesCheckout,
         DieBeforeGateway, CloseLapsed, CancelSubscription, StopBeforeCancel,
         WriteCancellation, ActOnReport, CronStep, FindLapsed, SweepStaleCheckout,
         StopCanceledCalendar, GiveUpCanceling, appVars
    <3>2. subs[SubOf[o]].status # "NONE"
      BY <3>1 DEF Stopping
    <3> QED BY <1>0, <2>1, <3>2, SurroundingRows DEF Expires, Begins, Abandons, Cancels
  <2>2. CASE [Next]_vars /\ UNCHANGED appVars
    <3>1. subs[SubOf[o]].status # "NONE"
      BY <2>2 DEF Stopping, appVars
    <3> QED BY <1>0, <2>2, <3>1, WebhookRows DEF Sound, Writes, SameBut, Strikes, Closes,
               FoldsInto, FoldsAway, Opens, Renews
  <2> QED BY <2>1, <2>2, SystemCases
<1> QED BY <1>1, <1>2

(* A row that is folded away was bought, so it is there.                   *)
LEMMA FoldedExists ==
  ASSUME Sound, Stopping, NEW h \in Handlers, Fold(h)
  PROVE  subs[sub(h)].status # "NONE"
<1>1. /\ pc[h] \in PaidSteps /\ order(h) \in Orders
      /\ sub(h) = SubOf[order(h)] /\ Paid(order(h))
  BY DeliveryFields DEF Fold, PaidSteps, Sound, TypeOK, HandlerTypeOK, Control, Holds,
     order, sub
<1>2. AtGateway(order(h))
  BY <1>1 DEF Paid, AtGateway
<1>3. \E o \in Checkouts : SubOf[o] = sub(h)
  <2>1. CASE ~IsRenewal(order(h))
    BY <1>1, <1>2, <2>1 DEF Sound, Forms
  <2>2. CASE IsRenewal(order(h))
    BY <1>1, <1>2, <2>2, CalendarKnown, CalendarFacts DEF OfCalendar
  <2> QED BY <2>1, <2>2
<1>4. PICK o \in Checkouts : SubOf[o] = sub(h)
  BY <1>3
<1>5. AtGateway(o)
  BY <1>1, <1>4, PaidIsOpened
<1> QED BY <1>4, <1>5 DEF Sound, Forms, Stopping

LEMMA StoppingStep ==
  ASSUME Sound, Stopping, DeclinesClaimed, [SystemStep]_allVars
  PROVE  Stopping'
<1>1. \A s \in Subs : Safe(s) => Safe(s)'
  BY SafeStays
<1>2. \A s \in Subs : Cancels(s) => Safe(s)
  BY DEF Cancels, WriteCancellation, Stopping
<1>3. ASSUME NEW s \in Subs, subs'[s].cancelAtEnd PROVE Safe(s)'
  <2>1. CASE subs[s].cancelAtEnd
    BY <1>1, <2>1 DEF Stopping
  <2>2. CASE Cancels(s)
    BY <1>1, <1>2, <2>2
  <2>3. CASE ~subs[s].cancelAtEnd /\ ~Cancels(s)
    <3>1. CASE [Next]_vars
      <4>1. \/ subs'[s] = subs[s]
            \/ \E h \in Handlers : Writes(h, s)
        BY <3>1, WebhookRows DEF Sound
      <4>2. subs'[s].cancelAtEnd = subs[s].cancelAtEnd \/ subs'[s].cancelAtEnd = FALSE
        BY <4>1 DEF Writes, SameBut, Strikes, Closes, FoldsInto, FoldsAway, Opens, Renews
      <4> QED BY <1>3, <2>3, <4>2
    <3>2. CASE Surroundings
      BY <1>3, <2>3, <3>2, SurroundingRows DEF Expires, Begins, Abandons
    <3> QED BY <3>1, <3>2, SystemCases
  <2> QED BY <2>1, <2>2, <2>3
<1>4. ASSUME NEW s \in Subs, canceling'[s] = "write" PROVE Safe(s)'
  <2>0. canceling \in [Subs -> {"no", "stop", "write"}]
    BY DEF Sound, AppTypeOK
  <2>1. CASE canceling[s] = "write"
    BY <1>1, <2>1 DEF Stopping
  <2>2. CASE canceling[s] # "write"
    <3>1. Surroundings
      BY <1>4, <2>2, SystemCases DEF appVars
    <3>2. CancelSubscription(s) \/ StopBeforeCancel(s)
      BY <1>4, <2>0, <2>2, <3>1 DEF Surroundings, CheckoutStep, StartSubscriptionCheckout,
         RefuseSecond, CreateCheckout, GatewayOpensCheckout, GatewayRefusesCheckout,
         DieBeforeGateway, CloseLapsed, CancelSubscription, StopBeforeCancel,
         WriteCancellation, ActOnReport, CronStep, FindLapsed, SweepStaleCheckout,
         StopCanceledCalendar, GiveUpCanceling, appVars
    <3>3. CASE CancelSubscription(s)
      <4>1. subs[s].status = "ACTIVE" /\ ~subs[s].calendar
        BY <1>4, <2>0, <3>3 DEF CancelSubscription
      <4> QED BY <1>1, <4>1 DEF Stopping
    <3>4. CASE StopBeforeCancel(s)
      <4>1. stopped' = stopped \union Openers(s)
        BY <1>4, <2>0, <3>4 DEF StopBeforeCancel, StopIsAnswered
      <4>2. Openers(s)' = Openers(s)
        BY DEF Openers, Checkouts, IsRenewal
      <4> QED BY <4>1, <4>2 DEF Safe
    <3> QED BY <3>2, <3>3, <3>4
  <2> QED BY <2>1, <2>2
<1>5. ASSUME NEW s \in Subs, subs'[s].status # "NONE", ~subs'[s].calendar
      PROVE  Safe(s)'
  <2>1. CASE subs[s].status # "NONE" /\ ~subs[s].calendar
    BY <1>1, <2>1 DEF Stopping
  <2>2. CASE Cancels(s)
    BY <1>1, <1>2, <2>2
  <2>3. CASE Begins(s)
    <3>1. ~Recurring
      BY <1>5, <2>3 DEF Begins
    <3> QED BY <3>1 DEF Safe
  <2>4. ASSUME NEW h \in Handlers, Strikes(h, s) PROVE Safe(s)'
    <3>1. Declined(s)
      BY <2>4, StrikeIsDeclined DEF Strikes, EndCalendar
    <3> QED BY <1>1, <3>1 DEF Safe
  <2>5. CASE subs[s].calendar /\ [Next]_vars
    <3>1. \/ subs'[s] = subs[s]
          \/ \E h \in Handlers : Writes(h, s)
      BY <2>5, WebhookRows DEF Sound
    <3>2. \/ subs'[s].calendar = subs[s].calendar \/ subs'[s].calendar = TRUE
          \/ \E h \in Handlers : Strikes(h, s)
      BY <3>1 DEF Writes, Closes, FoldsInto, FoldsAway, Opens, Renews
    <3> QED BY <1>5, <2>4, <2>5, <3>2
  <2>6. CASE subs[s].status = "NONE" /\ [Next]_vars
    <3>1. ASSUME NEW h \in Handlers, FoldsAway(h, s) PROVE FALSE
      BY <2>6, <3>1, FoldedExists DEF FoldsAway
    <3>2. ASSUME NEW h \in Handlers, Strikes(h, s) PROVE FALSE
      BY <1>5, <2>6, <3>2 DEF Strikes, SameBut
    <3>3. \/ subs'[s] = subs[s]
          \/ \E h \in Handlers : Writes(h, s)
      BY <2>6, WebhookRows DEF Sound
    <3> QED BY <1>5, <2>6, <3>1, <3>2, <3>3 DEF Writes, SameBut, Closes, FoldsInto, Opens,
               Openable, Renews, Renewable
  <2>7. CASE Surroundings /\ ~Cancels(s) /\ ~Begins(s)
    <3>1. subs'[s] = subs[s] \/ Expires(s) \/ Abandons(s)
      BY <2>7, SurroundingRows
    <3>2. /\ subs'[s].calendar = subs[s].calendar
          /\ subs'[s].status = subs[s].status \/ subs[s].status # "NONE"
      BY <3>1 DEF Expires, Abandons
    <3> QED BY <1>5, <2>1, <3>2
  <2> QED BY <2>1, <2>2, <2>3, <2>5, <2>6, <2>7, SystemCases
<1>6. \A o : (o \in Checkouts)' <=> o \in Checkouts
  BY DEF Checkouts, IsRenewal
<1> QED BY <1>3, <1>4, <1>5, RowsExist DEF Stopping


LEMMA StoppingInit ==
  ASSUME AppInit
  PROVE  Stopping /\ DeclinesClaimed
BY DEF AppInit, Stopping, DeclinesClaimed, NoRow

(* A charge begins only on a calendar of a checkout of ours that nobody has  *)
(* stopped, on or after its day.                                           *)
LEMMA ChargeSteps ==
  ASSUME Sound, [SystemStep]_allVars, NEW r \in Orders, IsRenewal(r),
         gw[r] = "none", gw'[r] # "none"
  PROVE  /\ WebhookStep /\ ChargeDue(r)
         /\ ParentOf[r] \in Openers(SubOf[r])
<1>1. ~Surroundings
  BY SurroundingGateway DEF Checkouts
<1>2. WebhookStep /\ [Next]_vars
  BY <1>1, WebhookSteps DEF SystemStep, allVars, vars, gatewayVars
<1>3. CalendarsKeepDates
  BY <1>2 DEF WebhookStep, GatewayStep, ReceiveDelivery, HandlerStep, Decide, Transition,
     SaveCard, ReadRunning, Open, Fold, Deactivate, ClosePending, Grant, Revoke, Credit,
     Reverse, EndCalendar, RecordRenewal, Renew, Mark, Crash, Tick, gatewayVars
<1>4. ChargeDue(r)
  BY <1>3 DEF CalendarsKeepDates
<1>5. AtGateway(ParentOf[r])
  BY <1>2, GatewayOpens DEF Sound, AtGateway, GatewayRenews
<1>6. ParentOf[r] \in Checkouts /\ SubOf[ParentOf[r]] = SubOf[r]
  BY <1>5, CalendarFacts DEF Sound, Forms
<1> QED BY <1>2, <1>4, <1>6 DEF Openers

LEMMA NoChargeWhereSafe ==
  ASSUME Sound, [SystemStep]_allVars, NEW r \in Orders, IsRenewal(r), gw[r] = "none",
         Safe(SubOf[r]), ~Declined(SubOf[r])
  PROVE  gw'[r] = "none"
BY ChargeSteps DEF Safe, ChargeDue

(* After a cancellation is confirmed the gateway starts no further charge on *)
(* the subscription, however the cancellation, the charge and the checkouts  *)
(* of the plan meet, unless a declined charge had struck its calendar: the    *)
(* calendar of a row the cancellation found was stopped first.             *)
THEOREM CancellationsStopCharges == AppSpec => CancelStopsCharges
<1>1. AppInit => Stopping /\ DeclinesClaimed
  BY StoppingInit
<1>2. /\ Sound /\ Stopping /\ DeclinesClaimed /\ [AppNext]_allVars
      => Stopping' /\ DeclinesClaimed'
  BY StoppingStep, DeclinesClaimedStep, AppSteps
<1>3. Sound /\ Stopping /\ [AppNext]_allVars =>
        [\A r \in Orders :
           IsRenewal(r) /\ gw[r] = "none" /\ subs[SubOf[r]].cancelAtEnd /\ ~Declined(SubOf[r])
             => gw'[r] = "none"]_allVars
  <2> SUFFICES ASSUME Sound, Stopping, [SystemStep]_allVars, NEW r \in Orders, IsRenewal(r),
                      gw[r] = "none", subs[SubOf[r]].cancelAtEnd, ~Declined(SubOf[r])
               PROVE  gw'[r] = "none"
    BY AppSteps
  <2>1. Safe(SubOf[r])
    BY CalendarFacts DEF Stopping
  <2> QED BY <2>1, NoChargeWhereSafe
<1> QED BY <1>1, <1>2, <1>3, AppInvariant, PTL DEF AppSpec, CancelStopsCharges


-----------------------------------------------------------------------------
(* The checkout of a charge is over and done with: its day does not move.   *)
LEMMA DayFixed ==
  ASSUME Sound, [SystemStep]_allVars, NEW r \in Orders, IsRenewal(r), AtGateway(r)
  PROVE  /\ DueBy(r) \in Nat /\ DueBy(r)' = DueBy(r)
         /\ ~Begins(SubOf[r])
<1>0. /\ ParentOf[r] \in Checkouts /\ SubOf[r] = SubOf[ParentOf[r]]
      /\ form[ParentOf[r]] \in {"open", "refused"}
  BY CalendarKnown, CalendarFacts DEF OfCalendar, Sound, Forms
<1>1. opened \in [Checkouts -> Nat] /\ ChargeOf[r] \in Nat /\ Period \in Nat
  BY ScheduleAssumption, AttributeAssumption DEF Sound, AppTypeOK
<1>2. ~CreateCheckout(ParentOf[r])
  BY <1>0 DEF CreateCheckout
<1>3. opened'[ParentOf[r]] = opened[ParentOf[r]]
  <2>1. CASE UNCHANGED appVars
    BY <2>1 DEF appVars
  <2>2. CASE Surroundings
    BY <1>0, <1>1, <1>2, <2>2 DEF Surroundings, CheckoutStep, StartSubscriptionCheckout,
       RefuseSecond, CreateCheckout, GatewayOpensCheckout, GatewayRefusesCheckout,
       DieBeforeGateway, CloseLapsed, CancelSubscription, StopBeforeCancel,
       WriteCancellation, ActOnReport, CronStep, FindLapsed, SweepStaleCheckout,
       StopCanceledCalendar, GiveUpCanceling, appVars
  <2> QED BY <2>1, <2>2, SystemCases
<1>4. ChargeOf[r] * Period \in Nat
  BY <1>1
<1>5. DueBy(r) \in Nat /\ DueBy(r)' = DueBy(r)
  BY <1>0, <1>1, <1>3, <1>4 DEF DueBy
<1>6. ~Begins(SubOf[r])
  <2> SUFFICES ASSUME Begins(SubOf[r]) PROVE FALSE
    OBVIOUS
  <2>1. PICK o \in Checkouts : CreateCheckout(o) /\ SubOf[o] = SubOf[r]
    BY DEF Begins
  <2>2. o = ParentOf[r]
    BY <1>0, <2>1, CheckoutFacts
  <2> QED BY <1>2, <2>1, <2>2
<1> QED BY <1>5, <1>6

(* No step takes days from a row but the one that begins it: an end is kept  *)
(* or set a period past the present day.                                   *)
LEMMA EndsGrow ==
  ASSUME Sound, [SystemStep]_allVars, NEW s \in Subs, ~Begins(s)
  PROVE  subs'[s].end = subs[s].end \/ subs'[s].end >= now + Period
<1>0. now + Period \in Nat
  BY AttributeAssumption DEF Sound, TypeOK, StoreTypeOK
<1>1. now + Period >= now + Period
  BY <1>0
<1>2. CASE [Next]_vars
  BY <1>1, <1>2, WebhookRows DEF Sound, Writes, SameBut, Strikes, Closes, FoldsInto,
     FoldsAway, Opens, Renews
<1>3. CASE Surroundings
  BY <1>3, SurroundingRows DEF Expires, Abandons, Cancels
<1> QED BY <1>2, <1>3, SystemCases

LEMMA HonouredStays ==
  ASSUME Sound, [SystemStep]_allVars, NEW r \in Orders, IsRenewal(r), AtGateway(r),
         DueBy(r) <= now, Honoured(r)
  PROVE  Honoured(r)'
<1>1. /\ DueBy(r) \in Nat /\ DueBy(r)' = DueBy(r)
      /\ ~Begins(SubOf[r]) /\ SubOf[r] \in Subs
  BY DayFixed, CalendarFacts
<1>2. /\ now \in Nat /\ Period \in Nat
      /\ subs[SubOf[r]].end \in Nat /\ subs'[SubOf[r]].end \in Nat
  BY <1>1, SoundStep, AttributeAssumption DEF Sound, TypeOK, StoreTypeOK, SubscriptionRow
<1>3. subs'[SubOf[r]].end = subs[SubOf[r]].end \/ subs'[SubOf[r]].end >= now + Period
  BY <1>1, EndsGrow
<1>4. subs'[SubOf[r]].end >= DueBy(r) + Period
  BY <1>1, <1>2, <1>3 DEF Honoured
<1> QED BY <1>1, <1>4 DEF Honoured

(* The step that renews the row gives it a whole period from now.          *)
LEMMA RenewingHonours ==
  ASSUME Sound, NEW h \in Handlers, Renew(h), Renewable(sub(h)), ~Throw(h),
         order(h) \in Orders, IsRenewal(order(h))
  PROVE  subs'[SubOf[order(h)]].end = now + Period
<1>1. sub(h) = SubOf[order(h)] /\ sub(h) \in Subs
  BY CalendarFacts DEF order, sub
<1>2. subs \in [Subs -> SubscriptionRow] /\ now + Period \in Nat
  BY AttributeAssumption DEF Sound, TypeOK, StoreTypeOK
<1>3. subs'[sub(h)] = [subs[sub(h)] EXCEPT !.status = "ACTIVE", !.end = now + Period,
                                           !.calendar = TRUE]
  BY <1>1, <1>2 DEF Renew, RenewSubscription
<1>4. PICK r \in SubscriptionRow, n \in Nat, x \in {subs'[sub(h)]} :
        r = subs[sub(h)] /\ n = now + Period /\ x = subs'[sub(h)]
  BY <1>1, <1>2
<1>5. x = [r EXCEPT !.status = "ACTIVE", !.end = n, !.calendar = TRUE]
  BY <1>3, <1>4
<1>6. x.end = n
  BY <1>5 DEF SubscriptionRow
<1> QED BY <1>1, <1>4, <1>6

(* A request that has recorded its renewal goes on to renew the row, to      *)
(* report the charge, or to answer with an error; otherwise it dies.        *)
LEMMA RecordedGoesOn ==
  ASSUME Sound, OneRefund, [Next]_vars, NEW h \in Handlers, WillReport(h), ~Crash(h)
  PROVE  \/ WillReport(h)' /\ msg'[h] = msg[h]
         \/ Renew(h) /\ Renewable(sub(h)) /\ ~Throw(h)
         \/ thrown' # {}
         \/ \E p \in reports' : p.id.order = order(h) /\ UnwantedReport(p)
<1>0. HandlerTypeOK /\ pc[h] \in {"credit", "renew", "mark"}
  BY DEF Sound, TypeOK, OneRefund
<1>1. CASE GatewayStep \/ Tick \/ UNCHANGED vars
  <2>1. UNCHANGED handlerVars
    BY <1>1 DEF GatewayStep, Tick, vars
  <2> QED BY <2>1 DEF handlerVars, WillReport
<1>2. ASSUME NEW g \in Handlers, g # h,
             HandlerStep(g) \/ Crash(g) \/ \E d \in sent : ReceiveDelivery(g, d)
      PROVE  WillReport(h)' /\ msg'[h] = msg[h]
  BY <1>0, <1>2, OthersKeep DEF WillReport
<1>3. ASSUME NEW d \in sent, ReceiveDelivery(h, d) PROVE FALSE
  BY <1>0, <1>3 DEF ReceiveDelivery
<1>4. CASE HandlerStep(h)
  <2>1. Credit(h) \/ Renew(h) \/ Mark(h)
    BY <1>0, <1>4 DEF HandlerStep, Decide, Transition, SaveCard, ReadRunning, Open, Fold,
       Deactivate, ClosePending, Grant, Revoke, Reverse, EndCalendar, RecordRenewal
  <2>2. CASE Credit(h)
    BY <2>2 DEF Credit, WillReport
  <2>3. CASE Renew(h) /\ Throw(h)
    BY <2>3 DEF Throw
  <2>4. CASE Renew(h) /\ ~Throw(h) /\ ~Renewable(sub(h))
    BY <2>4 DEF Renew, WillReport
  <2>5. CASE Mark(h)
    <3>1. PICK p : p = [id |-> ClaimedId(msg[h]), verdict |-> verdict[h]]
      OBVIOUS
    <3>2. p \in reports'
      BY <2>5, <3>1 DEF Mark, WillReport, ActedOn
    <3>3. p.id.order = order(h) /\ UnwantedReport(p)
      BY <3>1 DEF ClaimedId, order, UnwantedReport, WillReport
    <3> QED BY <3>2, <3>3
  <2> QED BY <2>1, <2>2, <2>3, <2>4, <2>5
<1> QED BY <1>1, <1>2, <1>3, <1>4 DEF Next


LEMMA AppRefundStep ==
  ASSUME Sound, OneRefund, [SystemStep]_allVars
  PROVE  OneRefund'
<1>1. CASE [Next]_vars
  BY <1>1, RefundStep DEF Sound
<1>2. CASE Surroundings
  <2>1. UNCHANGED <<pc, msg, verdict, reports>>
    BY <1>2, SurroundingsApart DEF apartVars, auditVars, handlerVars
  <2>2. \A o \in Orders : Found(o) => Found(o)'
    BY <1>2, SurroundingPayments DEF Found
  <2>3. \A h \in Handlers : WillReport(h) => order(h) \in Orders
    BY DeliveryFields DEF Sound, TypeOK, HandlerTypeOK, OneRefund, order
  <2>4. \A r \in reports : r.id.order \in Orders
    BY DEF Sound, TypeOK, AuditTypeOK, EventId
  <2>5. \A h : WillReport(h)' = WillReport(h) /\ order(h)' = order(h)
    BY <2>1 DEF WillReport, order
  <2>6. \A r : UnwantedReport(r)' = UnwantedReport(r)
    BY DEF UnwantedReport
  <2> QED BY <2>1, <2>2, <2>3, <2>4, <2>5, <2>6 DEF OneRefund
<1> QED BY <1>1, <1>2, SystemCases

LEMMA RenewalPaymentStep ==
  ASSUME Sound, RenewalsInHand, [SystemStep]_allVars, NEW r \in Orders, IsRenewal(r)
  PROVE  /\ payments'[r] \in {"NONE"} \union Captured
         /\ payments'[r] = "SUCCEEDED" =>
              \/ payments[r] = "SUCCEEDED"
              \/ \E h \in Handlers : WillReport(h)' /\ order(h)' = r
<1>0. payments[r] \in {"NONE"} \union Captured /\ HandlerTypeOK
  BY DEF RenewalsInHand, Sound, TypeOK
<1>1. CASE payments'[r] = payments[r]
  BY <1>0, <1>1
<1>2. CASE Surroundings
  BY <1>0, <1>1, <1>2, SurroundingPayments DEF Checkouts, Captured, Reversing
<1>3. CASE [Next]_vars /\ payments'[r] # payments[r]
  <2>1. PICK h \in Handlers :
           /\ order(h) = r /\ msg'[h] = msg[h]
           /\ \/ Transition(h) /\ payments'[r] = msg[h].status /\ payments[r] = seen[h]
              \/ RecordRenewal(h) /\ ~Found(r) /\ payments'[r] = "SUCCEEDED"
    BY <1>3, PaymentSteps
  <2>2. CASE Transition(h) /\ payments'[r] = msg[h].status /\ payments[r] = seen[h]
    <3>1. payments[r] # "NONE" /\ CanTransition(payments[r], payments'[r])
      BY <2>2 DEF Transition, Sound, Control, Holds
    <3>2. payments'[r] \in Reversing
      BY <1>0, <3>1 DEF CanTransition, AllowedTransitions, Captured, Reversing
    <3> QED BY <3>2 DEF Captured, Reversing
  <2>3. CASE RecordRenewal(h) /\ ~Found(r) /\ payments'[r] = "SUCCEEDED"
    <3>1. verdict'[h] = "RENEWAL_UNWANTED"
      BY <1>0, <2>1, <2>3 DEF RecordRenewal, HandlerTypeOK
    <3> QED BY <2>1, <2>3, <3>1 DEF WillReport, order, Captured
  <2> QED BY <2>1, <2>2, <2>3
<1> QED BY <1>1, <1>2, <1>3, SystemCases

LEMMA DueStep ==
  ASSUME Sound, RenewalsInHand, [SystemStep]_allVars, NEW r \in Orders, IsRenewal(r),
         AtGateway(r)'
  PROVE  DueBy(r)' <= now'
<1>0. now \in Nat /\ now' \in Nat /\ now' >= now
  BY ClockSteps, SoundStep DEF Sound, TypeOK, StoreTypeOK
<1>1. CASE AtGateway(r)
  <2>1. DueBy(r) <= now /\ DueBy(r) \in Nat /\ DueBy(r)' = DueBy(r)
    BY <1>1, DayFixed DEF RenewalsInHand
  <2> QED BY <1>0, <2>1
<1>2. CASE ~AtGateway(r)
  <2>1. DueBy(r) <= now
    BY <1>2, ChargeSteps DEF AtGateway, ChargeDue, DueBy
  <2>2. opened' = opened
    <3>1. ~Surroundings
      BY <1>2, SurroundingGateway DEF AtGateway, Checkouts
    <3> QED BY <3>1, SystemCases DEF appVars
  <2>3. OfCalendar(r)' /\ Sound'
    <3>1. Sound'
      BY SoundStep
    <3>2. OfCalendar(r)
      BY <1>2, ChargeSteps DEF AtGateway, OfCalendar, Openers
    <3> QED BY <3>1, <3>2 DEF OfCalendar, IsRenewal, Checkouts
  <2>4. DueBy(r)' = DueBy(r) /\ DueBy(r) \in Nat
    <3>1. opened[ParentOf[r]] \in Nat /\ ChargeOf[r] \in Nat /\ Period \in Nat
      BY <1>2, ChargeSteps, ScheduleAssumption, AttributeAssumption
         DEF AtGateway, Openers, Sound, AppTypeOK
    <3>2. ChargeOf[r] * Period \in Nat
      BY <3>1
    <3> QED BY <2>2, <3>1, <3>2 DEF DueBy
  <2> QED BY <1>0, <2>1, <2>4
<1> QED BY <1>1, <1>2

LEMMA RenewalsInHandStep ==
  ASSUME Sound, NothingUnpaid, OneRefund, RenewalsInHand, [SystemStep]_allVars
  PROVE  RenewalsInHand'
<1>1. ASSUME crashes' = 0, thrown' = {}, NEW r \in Orders, IsRenewal(r),
             payments'[r] = "SUCCEEDED"
      PROVE  \/ Honoured(r)'
             \/ \E p \in reports' : p.id.order = r /\ UnwantedReport(p)
             \/ \E h \in Handlers : WillReport(h)' /\ order(h)' = r
  <2>0. crashes = 0 /\ thrown = {} /\ reports \subseteq reports'
    BY <1>1, CrashesCount, SystemCases, ReportsStay, SurroundingsApart
       DEF apartVars, auditVars
  <2>1. CASE payments[r] # "SUCCEEDED"
    BY <1>1, <2>1, RenewalPaymentStep
  <2>2. CASE payments[r] = "SUCCEEDED"
    <3>1. AtGateway(r) /\ DueBy(r) <= now
      BY <1>1, <2>2 DEF NothingUnpaid, NoUnpaidMoney, Captured, Paid, AtGateway,
         RenewalsInHand
    <3>2. CASE Honoured(r)
      BY <1>1, <3>1, <3>2, HonouredStays
    <3>3. CASE \E p \in reports : p.id.order = r /\ UnwantedReport(p)
      BY <2>0, <3>3
    <3>4. ASSUME NEW h \in Handlers, WillReport(h), order(h) = r
          PROVE  \/ Honoured(r)'
                 \/ \E p \in reports' : p.id.order = r /\ UnwantedReport(p)
                 \/ WillReport(h)' /\ order(h)' = r
      <4>1. CASE Surroundings
        BY <3>4, <4>1, SurroundingsApart DEF apartVars, handlerVars, WillReport, order
      <4>2. CASE [Next]_vars
        <5>1. ~Crash(h)
          BY <1>1, CrashesCount
        <5>2. CASE Renew(h) /\ Renewable(sub(h)) /\ ~Throw(h)
          <6>1. subs'[SubOf[r]].end = now + Period
            BY <1>1, <3>4, <5>2, RenewingHonours
          <6>2. DueBy(r) \in Nat /\ DueBy(r)' = DueBy(r) /\ now \in Nat /\ Period \in Nat
            BY <1>1, <3>1, DayFixed, AttributeAssumption DEF Sound, TypeOK, StoreTypeOK
          <6>3. subs'[SubOf[r]].end >= DueBy(r) + Period
            BY <3>1, <6>1, <6>2
          <6> QED BY <6>2, <6>3 DEF Honoured
        <5>3. \/ WillReport(h)' /\ msg'[h] = msg[h]
              \/ Renew(h) /\ Renewable(sub(h)) /\ ~Throw(h)
              \/ thrown' # {}
              \/ \E p \in reports' : p.id.order = order(h) /\ UnwantedReport(p)
          BY <3>4, <4>2, <5>1, RecordedGoesOn
        <5> QED BY <1>1, <3>4, <5>2, <5>3 DEF order
      <4> QED BY <4>1, <4>2, SystemCases
    <3>5. \/ Honoured(r)
          \/ \E p \in reports : p.id.order = r /\ UnwantedReport(p)
          \/ \E h \in Handlers : WillReport(h) /\ order(h) = r
      BY <1>1, <2>0, <2>2 DEF RenewalsInHand
    <3> QED BY <3>2, <3>3, <3>4, <3>5
  <2> QED BY <2>1, <2>2
<1>2. ASSUME NEW r \in Orders, IsRenewal(r)
      PROVE  /\ payments'[r] \in {"NONE"} \union Captured
             /\ AtGateway(r)' => DueBy(r)' <= now'
  BY <1>2, RenewalPaymentStep, DueStep
<1>3. \A r : IsRenewal(r)' = IsRenewal(r) /\ UnwantedReport(r)' = UnwantedReport(r)
  BY DEF IsRenewal, UnwantedReport
<1> QED BY <1>1, <1>2, <1>3 DEF RenewalsInHand

LEMMA RenewalsInit ==
  ASSUME AppInit
  PROVE  OneRefund /\ RenewalsInHand
BY DEF AppInit, OneRefund, WillReport, RenewalsInHand, AtGateway

LEMMA HonouredAsStated ==
  ASSUME Sound, OneRefund, NothingUnpaid, RenewalsInHand, crashes = 0
  PROVE  RenewalHonoured
<1> SUFFICES ASSUME AllIdle, thrown = {}, NEW r \in Orders, IsRenewal(r),
                    payments[r] = "SUCCEEDED"
             PROVE  \/ subs[SubOf[r]].end >= opened[ParentOf[r]] + (ChargeOf[r] + 1) * Period
                    \/ \E p \in reports : p.id.order = r /\ p.verdict = "RENEWAL_UNWANTED"
  BY DEF RenewalHonoured
<1>1. \A h \in Handlers : ~WillReport(h)
  BY DEF AllIdle, OneRefund
<1>2. Honoured(r) \/ \E p \in reports : p.id.order = r /\ UnwantedReport(p)
  BY <1>1 DEF RenewalsInHand
<1>3. (ChargeOf[r] + 1) * Period = ChargeOf[r] * Period + Period
      /\ ChargeOf[r] * Period \in Nat /\ Period \in Nat
  BY ScheduleAssumption, AttributeAssumption
<1>4. opened[ParentOf[r]] \in Nat
  BY CalendarKnown DEF NothingUnpaid, NoUnpaidMoney, Captured, Paid, AtGateway,
     OfCalendar, Sound, AppTypeOK
<1>5. DueBy(r) + Period = opened[ParentOf[r]] + (ChargeOf[r] + 1) * Period
  BY <1>3, <1>4 DEF DueBy
<1> QED BY <1>2, <1>5 DEF Honoured, UnwantedReport

(* As long as no request has died, a renewal's money has bought its whole    *)
(* period or is put up for refund once the requests are answered, in         *)
(* whatever order the cancellation, the expiry, another checkout of the plan *)
(* and the charge meet: a period starts no earlier than the charge was due,  *)
(* and nothing takes days from a row again.                                *)
THEOREM RenewalsHonoured == AppSpec => [](crashes = 0 => RenewalHonoured)
<1>1. AppInit => OneRefund /\ RenewalsInHand
  BY RenewalsInit
<1>2. /\ Sound /\ NothingUnpaid /\ OneRefund /\ RenewalsInHand /\ [AppNext]_allVars
      => OneRefund' /\ RenewalsInHand'
  BY AppRefundStep, RenewalsInHandStep, AppSteps
<1>3. Sound /\ OneRefund /\ NothingUnpaid /\ RenewalsInHand
        => (crashes = 0 => RenewalHonoured)
  BY HonouredAsStated
<1> QED BY <1>1, <1>2, <1>3, AppInvariant, AppNothingForUnpaid, PTL DEF AppSpec

-----------------------------------------------------------------------------
(* LedgerMatchesStatus, where no two requests of one matter overlap: what    *)
(* goes on around the webhook leaves alone what has been taken, and captures *)
(* nothing.                                                                *)
LEMMA BooksBeside ==
  ASSUME Sound, NothingUnpaid, BooksKept, Surroundings
  PROVE  BooksKept'
<1>0. UNCHANGED <<ledger, pc, msg, seen, verdict>> /\ HandlerTypeOK
  BY SurroundingsApart DEF apartVars, handlerVars, Sound, TypeOK
<1>1. ASSUME NEW o \in Orders
      PROVE  /\ payments[o] \in Captured => payments'[o] = payments[o]
             /\ payments[o] \notin Captured => payments'[o] \notin Captured
  <2>1. payments[o] \in Captured => AtGateway(o)
    BY DEF NothingUnpaid, NoUnpaidMoney, Paid, AtGateway
  <2> QED BY <2>1, KnownKept, SurroundingPayments DEF Captured, Reversing
<1>2. ASSUME NEW g \in Handlers PROVE InStep(g)'
  <2>1. CASE pc[g] = "idle"
    BY <1>0, <2>1 DEF InStep, CreditDue, ReturnDue, GivesAccess
  <2>2. CASE pc[g] # "idle"
    <3>1. PICK o, s : o \in Orders /\ o = order(g) /\ s = sub(g)
      BY <1>0, <2>2, DeliveryFields DEF HandlerTypeOK, order
    <3>2. order(g)' = o /\ sub(g)' = s /\ InStep(g) /\ Holds(g)
      BY <1>0, <3>1 DEF order, sub, BooksKept, Sound, Control
    <3>3. pc[g] = "transition" /\ msg[g].status \in Captured => payments'[o] = payments[o]
      BY <3>1, <3>2, KnownKept DEF Holds, Paid, AtGateway
    <3>4. pc[g] = "recordRenewal" => payments'[o] = "NONE"
      <4>1. pc[g] = "recordRenewal" => IsRenewal(o) /\ payments[o] = "NONE"
        BY <3>1, <3>2 DEF Holds, RenewalSteps, InStep
      <4> QED BY <3>1, <4>1, SurroundingPayments, CheckoutFacts
    <3>5. pc[g] = "open" => RunningBeside(s)' = {}
      <4>1. \A r \in Subs : subs'[r].status = "ACTIVE" => subs[r].status = "ACTIVE"
        BY SurroundingRows DEF Expires, Begins, Abandons, Cancels
      <4> QED BY <3>1, <3>2, <4>1 DEF InStep, RunningBeside
    <3>6. (Earned(o)' <=> Earned(o)) /\ (TakenBack(o)' <=> TakenBack(o))
      BY <1>0 DEF Earned, TakenBack
    <3>7. CreditDue(g)' => payments'[o] = "SUCCEEDED" /\ (Share[o] > 0 => ~TakenBack(o)')
      <4>1. CreditDue(g)' => CreditDue(g)
        BY <1>0 DEF CreditDue, GivesAccess
      <4> QED BY <1>1, <3>1, <3>2, <3>6, <4>1 DEF InStep, Captured
    <3>8. ReturnDue(g)' => payments'[o] \in Reversing /\ (Share[o] > 0 => Earned(o)')
      <4>1. ReturnDue(g)' => ReturnDue(g)
        BY <1>0 DEF ReturnDue
      <4> QED BY <1>1, <3>1, <3>2, <3>6, <4>1 DEF InStep, Captured
    <3>9. pc[g] = "transition" /\ msg[g].status \in Captured => seen[g] = payments[o]
      BY <3>1, <3>2 DEF InStep
    <3> QED BY <1>0, <3>2, <3>3, <3>4, <3>5, <3>7, <3>8, <3>9 DEF InStep, Earned, TakenBack,
            RunningBeside
  <2> QED BY <2>1, <2>2
<1>3. ASSUME NEW o \in Orders, Share[o] > 0 PROVE Balanced(o)' \/ InWork(o)'
  <2>1. Balanced(o) => Balanced(o)'
    BY <1>0, <1>1 DEF Balanced, Earned, TakenBack, Captured
  <2>2. InWork(o) => InWork(o)'
    BY <1>0 DEF InWork, CreditDue, ReturnDue, GivesAccess, order
  <2> QED BY <1>3, <2>1, <2>2 DEF BooksKept
<1> QED BY <1>2, <1>3 DEF BooksKept

LEMMA AppBooksStep ==
  ASSUME Sound, NothingUnpaid, OneAtATime, crashes = 0 => BooksKept, [SystemStep]_allVars
  PROVE  (crashes = 0 => BooksKept)'
<1> SUFFICES ASSUME crashes' = 0 PROVE BooksKept'
  OBVIOUS
<1>1. crashes = 0 /\ ~ \E h \in Handlers : Crash(h)
  BY CrashesCount
<1>2. CASE [Next]_vars
  BY <1>1, <1>2, BooksKeptStep DEF Sound
<1>3. CASE Surroundings
  BY <1>1, <1>3, BooksBeside
<1> QED BY <1>2, <1>3, SystemCases

LEMMA AppBooksInit ==
  ASSUME AppInit
  PROVE  BooksKept
BY DEF AppInit, BooksKept, InStep, CreditDue, ReturnDue, GivesAccess, Balanced, Earned,
   TakenBack, Captured, Reversing

(* While no request has died, and no two of one matter are under way at      *)
(* once, the analyst has been credited for exactly the captured payments and *)
(* charged back for exactly the returned ones whenever the requests have     *)
(* been answered, whatever the gateway refused, the sweep found out, the     *)
(* calendars charged and the owner cancelled.                              *)
THEOREM AppLedgerSettled ==
  AppSpec /\ []OneAtATime => [](crashes = 0 => LedgerMatchesStatus)
<1>1. AppInit => BooksKept
  BY AppBooksInit
<1>2. /\ Sound /\ NothingUnpaid /\ OneAtATime /\ (crashes = 0 => BooksKept) /\ [AppNext]_allVars
      => (crashes = 0 => BooksKept)'
  BY AppBooksStep, AppSteps
<1> QED BY <1>1, <1>2, LedgerAsStated, AppInvariant, AppNothingForUnpaid, PTL DEF AppSpec

-----------------------------------------------------------------------------
(* ExpiryTakesOnlyRenewed: what a closer has read of a row as lapsed stays    *)
(* true of the row, or the row has been given days since.                  *)
ReadLapses ==
  \A c \in Closers : \A r \in lapsed[c] :
    /\ subs[r.row].status # "NONE"
    /\ r.end # 0 /\ r.end <= now
    /\ subs[r.row].end > now \/ (subs[r.row].end = r.end /\ Lapsed(r.row))

LEMMA RowsStay ==
  ASSUME Sound, [SystemStep]_allVars, NEW s \in Subs, subs[s].status # "NONE"
  PROVE  subs'[s].status # "NONE"
<1>1. CASE [Next]_vars
  BY <1>1, WebhookRows DEF Sound, Writes, SameBut, Strikes, Closes, FoldsInto, FoldsAway,
     Opens, Renews
<1>2. CASE Surroundings
  BY <1>2, SurroundingRows DEF Expires, Begins, Abandons, Cancels
<1> QED BY <1>1, <1>2, SystemCases

(* What a step makes of the end of a row that is there: nothing, and a        *)
(* calendar may be struck; or it is set a period past the present day.      *)
EndKept(s) == subs'[s].end = subs[s].end /\ subs'[s].calendar \in {subs[s].calendar, FALSE}

LEMMA EndWrites ==
  ASSUME Sound, [SystemStep]_allVars, NEW s \in Subs, subs[s].status # "NONE"
  PROVE  EndKept(s) \/ subs'[s].end >= now + Period
<1>0. subs \in [Subs -> SubscriptionRow] /\ now + Period \in Nat
  BY AttributeAssumption DEF Sound, TypeOK, StoreTypeOK
<1>1. CASE Surroundings
  <2>1. ASSUME Cancels(s) PROVE EndKept(s)
    <3>1. subs'[s] = [subs[s] EXCEPT !.cancelAtEnd = TRUE, !.canceledBy = "USER",
                                    !.calendar = FALSE, !.card = FALSE]
      BY <1>0, <2>1 DEF Cancels, WriteCancellation
    <3>2. PICK r, x : r \in SubscriptionRow /\ r = subs[s] /\ x = subs'[s]
      BY <1>0
    <3>3. x = [r EXCEPT !.cancelAtEnd = TRUE, !.canceledBy = "USER",
                       !.calendar = FALSE, !.card = FALSE]
      BY <3>1, <3>2
    <3>4. x.calendar = FALSE
      BY <3>2, <3>3 DEF SubscriptionRow
    <3> QED BY <2>1, <3>2, <3>4 DEF EndKept, Cancels
  <2>2. Expires(s) \/ Abandons(s) => EndKept(s)
    BY DEF Expires, Abandons, EndKept
  <2>3. subs'[s] = subs[s] => EndKept(s)
    BY DEF EndKept
  <2>4. ~Begins(s)
    BY DEF Begins
  <2> QED BY <1>1, <2>1, <2>2, <2>3, <2>4, SurroundingRows
<1>2. CASE [Next]_vars
  <2>1. ASSUME NEW h \in Handlers, Strikes(h, s) PROVE EndKept(s)
    <3>1. subs'[s] = subs[s] \/ subs'[s] = [subs[s] EXCEPT !.calendar = FALSE, !.card = FALSE]
      BY <1>0, <2>1 DEF Strikes, EndCalendar, EndRenewalCalendar
    <3>2. PICK r, x : r \in SubscriptionRow /\ r = subs[s] /\ x = subs'[s]
      BY <1>0
    <3>3. x = r \/ x = [r EXCEPT !.calendar = FALSE, !.card = FALSE]
      BY <3>1, <3>2
    <3>4. x.calendar \in {r.calendar, FALSE}
      BY <3>2, <3>3 DEF SubscriptionRow
    <3> QED BY <2>1, <3>2, <3>4 DEF EndKept, Strikes, SameBut
  <2>2. ASSUME NEW h \in Handlers, Writes(h, s), ~Strikes(h, s)
        PROVE  EndKept(s) \/ subs'[s].end >= now + Period
    <3>1. SameBut(s, subs[s].status) /\ subs'[s].calendar = subs[s].calendar => EndKept(s)
      BY DEF SameBut, EndKept
    <3>2. Closes(h, s) => EndKept(s)
      BY DEF Closes, SameBut, EndKept
    <3>3. FoldsAway(h, s) => EndKept(s) \/ subs'[s].end >= now + Period
      BY DEF FoldsAway, EndKept
    <3>4. FoldsInto(h, s) \/ Opens(h, s) \/ Renews(h, s) => subs'[s].end >= now + Period
      BY <1>0 DEF FoldsInto, Opens, Renews
    <3> QED BY <2>2, <3>1, <3>2, <3>3, <3>4 DEF Writes
  <2>3. subs'[s] = subs[s] => EndKept(s)
    BY DEF EndKept
  <2> QED BY <1>2, <2>1, <2>2, <2>3, WebhookRows DEF Sound
<1> QED BY <1>1, <1>2, SystemCases

(* A row gets onto a closer's list only while its month is over, with the end *)
(* it has.                                                                 *)
LEMMA ListingSteps ==
  ASSUME Sound, [SystemStep]_allVars, NEW c \in Closers, NEW r \in lapsed'[c]
  PROVE  \/ r \in lapsed[c]
         \/ /\ subs[r.row].status = "ACTIVE" /\ r.end = subs[r.row].end /\ Lapsed(r.row)
            /\ subs' = subs /\ now' = now
<1>0. lapsed \in [Closers -> SUBSET [row : Subs, end : Nat]]
  BY DEF Sound, AppTypeOK
<1>1. ASSUME Surroundings, ~ \E o \in Checkouts : StartSubscriptionCheckout(o),
             ~FindLapsed, ~ \E d \in Closers, x \in Subs : CloseLapsed(d, x)
      PROVE  lapsed' = lapsed
  BY <1>1 DEF Surroundings, CheckoutStep, RefuseSecond, CreateCheckout, GatewayOpensCheckout,
     GatewayRefusesCheckout, DieBeforeGateway, CancelSubscription, StopBeforeCancel,
     WriteCancellation, ActOnReport, CronStep, SweepStaleCheckout, StopCanceledCalendar,
     GiveUpCanceling, appVars
<1>2. CASE \E o \in Checkouts : StartSubscriptionCheckout(o)
  BY <1>0, <1>2 DEF StartSubscriptionCheckout, LapsedOf, apartVars
<1>3. CASE FindLapsed
  BY <1>0, <1>3 DEF FindLapsed, LapsedOf, apartVars
<1>4. CASE \E d \in Closers, x \in Subs : CloseLapsed(d, x)
  BY <1>0, <1>4 DEF CloseLapsed
<1> QED BY <1>1, <1>2, <1>3, <1>4, SystemCases DEF appVars

LEMMA ReadLapsesStep ==
  ASSUME Sound, ReadLapses, [SystemStep]_allVars
  PROVE  ReadLapses'
<1> SUFFICES ASSUME NEW c \in Closers, NEW r \in lapsed'[c]
             PROVE  /\ subs'[r.row].status # "NONE"
                    /\ r.end # 0 /\ r.end <= now'
                    /\ \/ subs'[r.row].end > now'
                       \/ subs'[r.row].end = r.end /\ Lapsed(r.row)'
  BY DEF ReadLapses, Closers, Checkouts, IsRenewal
<1> DEFINE s == r.row
<1>0. /\ s \in Subs /\ r.end \in Nat /\ now \in Nat /\ Period \in Nat \ {0} /\ Grace \in Nat
      /\ subs[s].end \in Nat /\ subs[s].calendar \in BOOLEAN
      /\ subs'[s].end \in Nat
  BY SoundStep, AttributeAssumption, ScheduleAssumption
     DEF Sound, AppTypeOK, TypeOK, StoreTypeOK, SubscriptionRow, Closers, Checkouts, IsRenewal
<1>1. CASE r \notin lapsed[c]
  <2>1. /\ subs[s].status = "ACTIVE" /\ r.end = subs[s].end /\ Lapsed(s)
        /\ subs' = subs /\ now' = now
    BY <1>1, ListingSteps
  <2>2. r.end # 0 /\ r.end <= now
    BY <1>0, <2>1 DEF Lapsed
  <2> QED BY <2>1, <2>2 DEF Lapsed
<1>2. CASE r \in lapsed[c]
  <2>1. now' = now
    BY <1>2, ClockSteps DEF AppIdle
  <2>2. /\ subs[s].status # "NONE" /\ r.end # 0 /\ r.end <= now
        /\ subs[s].end > now \/ (subs[s].end = r.end /\ Lapsed(s))
    BY <1>2 DEF ReadLapses
  <2>3. subs'[s].status # "NONE"
    BY <1>0, <2>2, RowsStay
  <2>4. CASE EndKept(s) /\ Lapsed(s) /\ subs[s].end = r.end
    <3>1. PICK e \in Nat, g \in Nat, n \in Nat : e = subs[s].end /\ g = Grace /\ n = now
      BY <1>0
    <3>2. subs'[s].end = e /\ now' = n /\ e # 0 /\ e <= n
      BY <1>0, <2>1, <2>2, <2>4, <3>1 DEF EndKept
    <3>3. CASE subs[s].calendar
      <4>1. e + g <= n
        BY <2>4, <3>1, <3>3 DEF Lapsed
      <4>2. Lapsed(s)'
        BY <3>1, <3>2, <4>1 DEF Lapsed
      <4> QED BY <2>1, <2>2, <2>3, <2>4, <4>2 DEF EndKept
    <3>4. CASE ~subs[s].calendar
      <4>1. ~subs'[s].calendar
        BY <2>4, <3>4 DEF EndKept
      <4>2. Lapsed(s)'
        BY <3>2, <4>1 DEF Lapsed
      <4> QED BY <2>1, <2>2, <2>3, <2>4, <4>2 DEF EndKept
    <3> QED BY <3>3, <3>4
  <2>5. CASE EndKept(s) /\ subs[s].end > now
    BY <2>1, <2>2, <2>3, <2>5 DEF EndKept
  <2>6. CASE subs'[s].end >= now + Period
    BY <1>0, <2>1, <2>2, <2>3, <2>6
  <2> QED BY <1>0, <2>2, <2>4, <2>5, <2>6, EndWrites
<1> QED BY <1>1, <1>2

(* What the expiry takes is over, or has been given days since it was read.   *)
LEMMA ExpiryStep ==
  ASSUME Sound, ReadLapses, [SystemStep]_allVars, NEW s \in Subs,
         subs[s].status = "ACTIVE", subs'[s].status = "EXPIRED", GrantsAccess(s)
  PROVE  \E c \in Closers : \E r \in lapsed[c] \ lapsed'[c] :
           r.row = s /\ r.end < subs[s].end
<1>0. /\ now \in Nat /\ Grace \in Nat /\ AccessGrace \in Nat /\ AccessGrace <= Grace
      /\ subs[s].end \in Nat
      /\ lapsed \in [Closers -> SUBSET [row : Subs, end : Nat]]
  BY ScheduleAssumption DEF Sound, AppTypeOK, TypeOK, StoreTypeOK, SubscriptionRow
<1>1. Expires(s)
  <2>1. CASE Surroundings
    BY <2>1, SurroundingRows DEF Begins, Abandons, Cancels
  <2>2. CASE [Next]_vars
    BY <2>2, WebhookRows DEF Sound, Writes, SameBut, Strikes, Closes, FoldsInto, FoldsAway,
       Opens, Renews
  <2> QED BY <2>1, <2>2, SystemCases
<1>2. PICK c \in Closers : CloseLapsed(c, s)
  BY <1>1 DEF Expires
<1>3. PICK r \in lapsed[c] : r.row = s
  BY <1>2 DEF CloseLapsed, Listed
<1>4. r \notin lapsed'[c]
  BY <1>0, <1>2, <1>3 DEF CloseLapsed
<1>5. /\ r.end # 0 /\ r.end <= now /\ r.end \in Nat
      /\ subs[s].end > now \/ (subs[s].end = r.end /\ Lapsed(s))
  BY <1>0, <1>3 DEF ReadLapses
<1>6. subs[s].end > now
  BY <1>0, <1>5 DEF Lapsed, GrantsAccess
<1>7. r.end < subs[s].end
  BY <1>0, <1>5, <1>6
<1> QED BY <1>3, <1>4, <1>7

LEMMA ReadLapsesInit ==
  ASSUME AppInit
  PROVE  ReadLapses
BY DEF AppInit, ReadLapses

(* The cron and a checkout expire a row that still opens its plan only where  *)
(* its end has been moved since that very closer read it as lapsed, and the  *)
(* end it read was over: a row that nobody has prolonged meanwhile is over   *)
(* when it is taken, whatever was cancelled, declined, refunded or died      *)
(* around it, and however the requests overlap.                            *)
THEOREM ExpiriesAreRenewals == AppSpec => ExpiryTakesOnlyRenewed
<1>1. AppInit => ReadLapses
  BY ReadLapsesInit
<1>2. Sound /\ ReadLapses /\ [AppNext]_allVars => ReadLapses'
  BY ReadLapsesStep, AppSteps
<1>3. Sound /\ ReadLapses /\ [AppNext]_allVars =>
        [\A s \in Subs :
           /\ subs[s].status = "ACTIVE" /\ subs'[s].status = "EXPIRED"
           /\ GrantsAccess(s)
           => \E c \in Closers : \E r \in lapsed[c] \ lapsed'[c] :
                r.row = s /\ r.end < subs[s].end]_allVars
  BY ExpiryStep, AppSteps
<1> QED BY <1>1, <1>2, <1>3, AppInvariant, PTL DEF AppSpec, ExpiryTakesOnlyRenewed
-----------------------------------------------------------------------------
(* The closing of an account, for every number of its subscriptions and      *)
(* every refusal or crash on the way.                                      *)

(* ClosingStopsCharges: what the request has dealt with is charged no more,  *)
(* and the account is closed only when everything has been dealt with.      *)
ClosedSafely ==
  /\ foundRunning \subseteq Subs
  /\ account \in {"ACTIVE", "DELETED"}
  /\ closing # None => /\ account = "ACTIVE" /\ closing \subseteq Subs
                       /\ \A s \in foundRunning \ closing : Safe(s)
  /\ account = "DELETED" => \A s \in foundRunning : Safe(s)

(* Closing adds to the steps of Subscriptions only the loss of a             *)
(* cancellation.                                                           *)
LEMMA ClosingSteps == [ClosingNext]_systemVars => [SystemStep]_allVars
<1>1. ASSUME Around PROVE SystemStep
  BY <1>1 DEF Around, SystemStep, Surroundings, CancelStep
<1>2. ASSUME StartClosing \/ MarkDeleted \/ UNCHANGED systemVars PROVE UNCHANGED allVars
  BY <1>2 DEF StartClosing, MarkDeleted, systemVars
<1>3. ASSUME DieClosing PROVE GiveUpCanceling
  BY <1>3 DEF DieClosing, GiveUpCanceling
<1>4. ASSUME NEW s \in Subs, CancelNext(s) \/ CancelFound(s) PROVE [SystemStep]_allVars
  BY <1>4 DEF CancelNext, CancelFound, SystemStep, Surroundings
<1> QED BY <1>1, <1>2, <1>3, <1>4 DEF ClosingNext, SystemStep, Surroundings

LEMMA ClosingInvariant ==
  ClosingSpec => [](Sound /\ NothingUnpaid)
<1>1. ClosingInit => Sound /\ NothingUnpaid
  BY AppInitSound DEF ClosingInit, AppInit, NothingUnpaid, NoUnpaidMoney,
     NoUnpaidSubscription, NoUnpaidTicket, Earned, TakenBack, Captured, Reversing, NoRow
<1>2. Sound /\ NothingUnpaid /\ [ClosingNext]_systemVars => Sound' /\ NothingUnpaid'
  BY ClosingSteps, SoundStep, UnpaidStep
<1> QED BY <1>1, <1>2, PTL DEF ClosingSpec

LEMMA ClosingStopping == ClosingSpec => [](Stopping /\ DeclinesClaimed)
<1>1. ClosingInit => Stopping /\ DeclinesClaimed
  BY StoppingInit DEF ClosingInit
<1>2. /\ Sound /\ Stopping /\ DeclinesClaimed /\ [ClosingNext]_systemVars
      => Stopping' /\ DeclinesClaimed'
  BY ClosingSteps, StoppingStep, DeclinesClaimedStep
<1> QED BY <1>1, <1>2, ClosingInvariant, PTL DEF ClosingSpec

(* Cancelling one of them is what makes it safe to take it off the list.    *)
LEMMA ClosedSafelyStep ==
  ASSUME Sound, Stopping, ClosedSafely, [ClosingNext]_systemVars
  PROVE  ClosedSafely'
<1>0. \A s \in Subs : Safe(s) => Safe(s)'
  BY ClosingSteps, SafeStays
<1>1. CASE UNCHANGED closingVars
  BY <1>0, <1>1 DEF ClosedSafely, closingVars
<1>2. CASE StartClosing
  BY <1>2 DEF StartClosing, ClosedSafely, Running
<1>3. CASE MarkDeleted
  <2>1. closing = {} /\ closing # None
    BY <1>3, ClosingAssumption DEF MarkDeleted
  <2>2. foundRunning' = foundRunning /\ closing' = None /\ account' = "DELETED"
    BY <1>3 DEF MarkDeleted
  <2> QED BY <1>0, <2>1, <2>2 DEF ClosedSafely
<1>4. ASSUME closing' = None, account' = account, foundRunning' = foundRunning
      PROVE  ClosedSafely'
  BY <1>0, <1>4 DEF ClosedSafely
<1>5. ASSUME NEW s \in Subs, CancelFound(s), closing' # None PROVE ClosedSafely'
  <2>1. /\ closing # None /\ account' = account /\ foundRunning' = foundRunning
        /\ closing' = closing \/ (WriteCancellation(s) /\ closing' = closing \ {s})
    BY <1>5 DEF CancelFound
  <2>2. WriteCancellation(s) => Safe(s)
    BY DEF WriteCancellation, Stopping
  <2> QED BY <1>0, <2>1, <2>2 DEF ClosedSafely
<1>6. ASSUME NEW s \in Subs, CancelFound(s) PROVE ClosedSafely'
  BY <1>4, <1>5, <1>6 DEF CancelFound
<1>7. ASSUME NEW s \in Subs, CancelNext(s) PROVE ClosedSafely'
  BY <1>1, <1>4, <1>7 DEF CancelNext
<1>8. CASE DieClosing
  BY <1>4, <1>8 DEF DieClosing
<1> QED BY <1>1, <1>2, <1>3, <1>6, <1>7, <1>8 DEF ClosingNext, systemVars

(* A closed account is not charged again for a subscription its closing had  *)
(* found running, unless a declined charge had struck the calendar: what was *)
(* not stopped kept the account open.                                      *)
THEOREM ClosingsStopCharges == ClosingSpec => ClosingStopsCharges
<1>1. ClosingInit => ClosedSafely
  BY DEF ClosingInit, ClosedSafely
<1>2. Sound /\ Stopping /\ ClosedSafely /\ [ClosingNext]_systemVars => ClosedSafely'
  BY ClosedSafelyStep
<1>3. Sound /\ ClosedSafely /\ [ClosingNext]_systemVars =>
        [\A r \in Orders :
           /\ IsRenewal(r) /\ gw[r] = "none" /\ account = "DELETED"
           /\ SubOf[r] \in foundRunning /\ ~Declined(SubOf[r])
           => gw'[r] = "none"]_systemVars
  BY ClosingSteps, NoChargeWhereSafe DEF ClosedSafely
<1> QED BY <1>1, <1>2, <1>3, ClosingInvariant, ClosingStopping, PTL
        DEF ClosingSpec, ClosingStopsCharges

(* While accounts are closed, and die closing, the promises about            *)
(* subscriptions hold as they do without.                                  *)
THEOREM ClosingCancellations == ClosingSpec => CancelStopsCharges
<1>1. Sound /\ Stopping /\ [ClosingNext]_systemVars =>
        [\A r \in Orders :
           IsRenewal(r) /\ gw[r] = "none" /\ subs[SubOf[r]].cancelAtEnd /\ ~Declined(SubOf[r])
             => gw'[r] = "none"]_allVars
  BY ClosingSteps, NoChargeWhereSafe, CalendarFacts DEF Stopping
<1> QED BY <1>1, ClosingInvariant, ClosingStopping, PTL DEF ClosingSpec, CancelStopsCharges

(* A renewal's money is honoured or put up for refund, and nothing waits for *)
(* a payment that came to nothing, as long as no request of the webhook has  *)
(* died; a closing may.                                                    *)
THEOREM ClosingRenewals ==
  ClosingSpec => [](crashes = 0 => RenewalHonoured /\ NoStuckPending)
<1>1. ClosingInit => OneRefund /\ RenewalsInHand /\ ClosingInHand
  BY RenewalsInit DEF ClosingInit, AppInit, ClosingInHand, Closing, Checkouts
<1>2. /\ Sound /\ NothingUnpaid /\ OneRefund /\ RenewalsInHand /\ ClosingInHand
      /\ [ClosingNext]_systemVars
      => OneRefund' /\ RenewalsInHand' /\ ClosingInHand'
  BY ClosingSteps, AppRefundStep, RenewalsInHandStep, ClosingInHandStep
<1>3. Sound /\ NothingUnpaid /\ OneRefund /\ RenewalsInHand /\ ClosingInHand
        => (crashes = 0 => RenewalHonoured /\ NoStuckPending)
  BY HonouredAsStated DEF ClosingInHand, NoStuckPending, AllIdle
<1> QED BY <1>1, <1>2, <1>3, ClosingInvariant, PTL DEF ClosingSpec

(* The same while accounts are closed, and die closing.                    *)
THEOREM ClosingExpiries == ClosingSpec => ExpiryTakesOnlyRenewed
<1>1. ClosingInit => ReadLapses
  BY ReadLapsesInit DEF ClosingInit
<1>2. Sound /\ ReadLapses /\ [ClosingNext]_systemVars => ReadLapses'
  BY ReadLapsesStep, ClosingSteps
<1>3. Sound /\ ReadLapses /\ [ClosingNext]_systemVars =>
        [\A s \in Subs :
           /\ subs[s].status = "ACTIVE" /\ subs'[s].status = "EXPIRED"
           /\ GrantsAccess(s)
           => \E c \in Closers : \E r \in lapsed[c] \ lapsed'[c] :
                r.row = s /\ r.end < subs[s].end]_allVars
  BY ExpiryStep, ClosingSteps
<1> QED BY <1>1, <1>2, <1>3, ClosingInvariant, PTL DEF ClosingSpec, ExpiryTakesOnlyRenewed
=============================================================================
