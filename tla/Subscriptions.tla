---------------------------- MODULE Subscriptions ----------------------------
(***************************************************************************)
(* The webhook in its surroundings: the checkout form, the cancellation,    *)
(* the daily payments cron and what the webhook route does after an answer. *)
(* They share the subscription and payment rows with the handlers of        *)
(* PaymentWebhook, and talk to the gateway outside any transaction.         *)
(*                                                                         *)
(* The gateway may accept or refuse whatever it is asked.  A calendar it    *)
(* keeps charges on its due days until it is stopped.                      *)
(***************************************************************************)
EXTENDS PaymentWebhook

CONSTANTS
  Recurring,      \* SUBSCRIPTION_RECURRING
  ChargeOf,       \* a renewal is the n-th charge of its parent's calendar
  Grace,          \* RENEWAL_GRACE_MS in days
  AccessGrace,    \* RENEWAL_ACCESS_GRACE_MS in days
  StaleAfter,     \* STALE_CHECKOUT_MS in days
  Leavers,        \* bound: subscriptions their owner may cancel
  Refusals        \* bound: requests the gateway may refuse, or that die ("crash")

ASSUME ScheduleAssumption ==
  /\ Recurring \in BOOLEAN
  /\ ChargeOf \in [Orders -> Nat]
  /\ Grace \in Nat /\ AccessGrace \in 0..Grace
  /\ StaleAfter \in Nat \ {0}
  /\ Leavers \subseteq Subs
  /\ Refusals \subseteq {"checkout", "stop", "refund", "crash"}

VARIABLES
  form,           \* the submission that creates this order
  opened,         \* Payment.createdAt, in days
  lapsed,         \* rows a closer has read as lapsed and not yet closed, as read
  canceling,      \* a cancellation under way, by subscription
  stopped,        \* calendars the gateway has been told to stop
  settled,        \* reports the webhook route has acted on
  calendarSwept   \* orders with a SUBSCRIPTION_CALENDAR_SWEPT audit row

appVars == <<form, opened, lapsed, canceling, stopped, settled, calendarSwept>>
allVars == <<vars, appVars>>

(* What none of the actions below writes.                                  *)
apartVars == <<purchases, ledger, earnings, now, attempts, auditVars, handlerVars>>

Checkouts == {o \in Orders \ Foreign : SubOf[o] # None /\ ~IsRenewal(o)}

(* Who closes lapsed rows: the cron, and every checkout for its own plan.  *)
Closers == Checkouts \union {"cron"}

Openers(s) == {o \in Checkouts : SubOf[o] = s}

(* Every checkout makes a subscription row of its own.                     *)
ASSUME CheckoutAssumption ==
  \A o, p \in Checkouts : SubOf[o] = SubOf[p] => o = p

(* The types of the application's own state, beside the webhook's TypeOK.   *)
AppTypeOK ==
  /\ form \in [Checkouts -> {"closed", "checking", "asking", "open",
                             "conflict", "refused", "lost"}]
  /\ opened \in [Checkouts -> Nat]
  /\ lapsed \in [Closers -> SUBSET [row : Subs, end : Nat]]
  /\ canceling \in [Subs -> {"no", "stop", "write"}]
  /\ stopped \subseteq Checkouts
  /\ settled \subseteq reports
  /\ calendarSwept \subseteq Checkouts

NoRow == [status |-> "NONE", canceledBy |-> "none", cancelAtEnd |-> FALSE,
          end |-> 0, calendar |-> FALSE, card |-> FALSE]

(* Nobody has bought anything yet.                                         *)
AppInit ==
  /\ payments = [o \in Orders |-> "NONE"]
  /\ subs = [s \in Subs |-> NoRow]
  /\ purchases = [t \in Tickets |-> [payment |-> None, revoked |-> FALSE]]
  /\ ledger = {}
  /\ earnings = [a \in Analysts |-> 0]
  /\ now = 0
  /\ gw = [o \in Orders |-> "none"]
  /\ attempts = [o \in Orders |-> 0]
  /\ sent = Noise
  /\ events = {} /\ reports = {} /\ thrown = {} /\ crashes = 0
  /\ pc = [h \in Handlers |-> "idle"]
  /\ msg = [h \in Handlers |-> None]
  /\ seen = [h \in Handlers |-> "NONE"]
  /\ fold = [h \in Handlers |-> NoFold]
  /\ verdict = [h \in Handlers |-> "none"]
  /\ form = [o \in Checkouts |-> "closed"]
  /\ opened = [o \in Checkouts |-> 0]
  /\ lapsed = [c \in Closers |-> {}]
  /\ canceling = [s \in Subs |-> "no"]
  /\ stopped = {} /\ settled = {} /\ calendarSwept = {}
-----------------------------------------------------------------------------
(* Closing months that are over.                                           *)

LapsedAtOnce(s) == subs[s].end # 0 /\ subs[s].end <= now   \* faulty: no grace for a renewal

Lapsed(s) ==
  /\ subs[s].end # 0
  /\ subs[s].end + (IF subs[s].calendar THEN Grace ELSE 0) <= now

(* Whether the row opens its plan's tickets (subscriptionGrantsAccess).    *)
GrantsAccess(s) ==
  /\ subs[s].status = "ACTIVE"
  /\ \/ subs[s].end = 0
     \/ now < subs[s].end + (IF subs[s].calendar THEN AccessGrace ELSE 0)

LapsedOf(plans) ==
  {[row |-> s, end |-> subs[s].end] :
     s \in {x \in Subs : PlanOf[x] \in plans /\ subs[x].status = "ACTIVE" /\ Lapsed(x)}}

Listed(c) == {r.row : r \in lapsed[c]}

(* The cron reads the lapsed rows of everybody.                            *)
FindLapsed ==
  /\ lapsed["cron"] = {}
  /\ LapsedOf(Plans) # {}
  /\ lapsed' = [lapsed EXCEPT !["cron"] = LapsedOf(Plans)]
  /\ UNCHANGED <<payments, subs, gw, sent, apartVars, form, opened, canceling,
                 stopped, settled, calendarSwept>>

(* One row of them, guarded by nothing but its status: the end that was read *)
(* is not compared with the row's.                                         *)
CloseLapsed(c, s) ==
  /\ s \in Listed(c)
  /\ lapsed' = [lapsed EXCEPT ![c] = {r \in @ : r.row # s}]
  /\ subs' = IF subs[s].status = "ACTIVE" THEN [subs EXCEPT ![s].status = "EXPIRED"]
                                          ELSE subs
  /\ UNCHANGED <<payments, gw, sent, apartVars, form, opened, canceling,
                 stopped, settled, calendarSwept>>
-----------------------------------------------------------------------------
(* startSubscriptionCheckout.                                              *)

StartWithoutExpiring(o) ==   \* faulty: a month that has run out still blocks
  /\ form[o] = "closed"
  /\ form' = [form EXCEPT ![o] = "checking"]
  /\ UNCHANGED <<payments, subs, gw, sent, apartVars, opened, lapsed, canceling,
                 stopped, settled, calendarSwept>>

(* The buyer's own lapsed row of this plan is closed first.                *)
StartSubscriptionCheckout(o) ==
  /\ form[o] = "closed"
  /\ form' = [form EXCEPT ![o] = "checking"]
  /\ lapsed' = [lapsed EXCEPT ![o] = LapsedOf({PlanOf[SubOf[o]]})]
  /\ UNCHANGED <<payments, subs, gw, sent, apartVars, opened, canceling,
                 stopped, settled, calendarSwept>>

RunningOf(o) ==
  {s \in Subs : PlanOf[s] = PlanOf[SubOf[o]] /\ subs[s].status = "ACTIVE"}

RefuseSecond(o) ==
  /\ form[o] = "checking" /\ lapsed[o] = {}
  /\ RunningOf(o) # {}
  /\ form' = [form EXCEPT ![o] = "conflict"]
  /\ UNCHANGED <<payments, subs, gw, sent, apartVars, opened, lapsed, canceling,
                 stopped, settled, calendarSwept>>

(* The rows are written before the gateway is asked.  Nothing locks the     *)
(* plan: a row opened since the check is met by the webhook's fold.        *)
CreateCheckout(o) ==
  /\ form[o] = "checking" /\ lapsed[o] = {}
  /\ RunningOf(o) = {}
  /\ payments' = [payments EXCEPT ![o] = "CREATED"]
  /\ subs' = [subs EXCEPT ![SubOf[o]] =
                [NoRow EXCEPT !.status = "PENDING", !.calendar = Recurring]]
  /\ opened' = [opened EXCEPT ![o] = now]
  /\ form' = [form EXCEPT ![o] = "asking"]
  /\ UNCHANGED <<gw, sent, apartVars, lapsed, canceling, stopped, settled,
                 calendarSwept>>

GatewayOpensCheckout(o) ==
  /\ form[o] = "asking"
  /\ gw' = [gw EXCEPT ![o] = "open"]
  /\ form' = [form EXCEPT ![o] = "open"]
  /\ UNCHANGED <<payments, subs, sent, apartVars, opened, lapsed, canceling,
                 stopped, settled, calendarSwept>>

AbandonPaymentOnly(o) ==   \* faulty: the subscription is left waiting
  /\ payments' = IF payments[o] = "CREATED" THEN [payments EXCEPT ![o] = "FAILED"]
                                            ELSE payments
  /\ UNCHANGED subs

(* abandonRefusedCheckout: one transaction, each half guarded by itself.   *)
AbandonRefusedCheckout(o) ==
  /\ payments' = IF payments[o] = "CREATED" THEN [payments EXCEPT ![o] = "FAILED"]
                                            ELSE payments
  /\ subs' = IF subs[SubOf[o]].status = "PENDING"
             THEN [subs EXCEPT ![SubOf[o]] = [@ EXCEPT !.status = "CANCELED",
                                                       !.canceledBy = "SYSTEM"]]
             ELSE subs

GatewayRefusesCheckout(o) ==
  /\ form[o] = "asking"
  /\ "checkout" \in Refusals
  /\ AbandonRefusedCheckout(o)
  /\ gw' = [gw EXCEPT ![o] = "closed"]
  /\ form' = [form EXCEPT ![o] = "refused"]
  /\ UNCHANGED <<sent, apartVars, opened, lapsed, canceling, stopped, settled,
                 calendarSwept>>
(* The process dies with the rows written and the gateway not asked: the    *)
(* order is not known there, now or ever.                                  *)
DieBeforeGateway(o) ==
  /\ form[o] = "asking"
  /\ "crash" \in Refusals
  /\ form' = [form EXCEPT ![o] = "lost"]
  /\ UNCHANGED <<payments, subs, gw, sent, apartVars, opened, lapsed, canceling,
                 stopped, settled, calendarSwept>>
-----------------------------------------------------------------------------
(* cancelSubscription: read, ask the gateway, write.                       *)

(* What the gateway may answer to a request.                               *)
Answers(request) == {TRUE} \union (IF request \in Refusals THEN {FALSE} ELSE {})

(* It is asked to stop the calendars of these orders.                      *)
StopIsAnswered(orders, accepted) ==
  stopped' = IF accepted THEN stopped \union orders ELSE stopped

CancelSubscription(s) ==
  /\ canceling[s] = "no"
  /\ subs[s].status = "ACTIVE"
  /\ canceling' = [canceling EXCEPT ![s] = IF subs[s].calendar THEN "stop" ELSE "write"]
  /\ UNCHANGED <<payments, subs, gw, sent, apartVars, form, opened, lapsed,
                 stopped, settled, calendarSwept>>

StopRefusedGoesOn(s) ==   \* faulty: the gateway's refusal is not looked at
  /\ canceling[s] = "stop"
  /\ \E accepted \in Answers("stop") : StopIsAnswered(Openers(s), accepted)
  /\ canceling' = [canceling EXCEPT ![s] = "write"]
  /\ UNCHANGED <<payments, subs, gw, sent, apartVars, form, opened, lapsed,
                 settled, calendarSwept>>

(* A refusal fails the whole cancellation.                                 *)
StopBeforeCancel(s) ==
  /\ canceling[s] = "stop"
  /\ \E accepted \in Answers("stop") :
       /\ StopIsAnswered(Openers(s), accepted)
       /\ canceling' = [canceling EXCEPT ![s] = IF accepted THEN "write" ELSE "no"]
  /\ UNCHANGED <<payments, subs, gw, sent, apartVars, form, opened, lapsed,
                 settled, calendarSwept>>

(* The update is by id: whatever the row has become meanwhile.             *)
WriteCancellation(s) ==
  /\ canceling[s] = "write"
  /\ subs' = [subs EXCEPT ![s] = [@ EXCEPT !.cancelAtEnd = TRUE,
                                           !.canceledBy = "USER",
                                           !.calendar = FALSE,
                                           !.card = FALSE]]
  /\ canceling' = [canceling EXCEPT ![s] = "no"]
  /\ UNCHANGED <<payments, gw, sent, apartVars, form, opened, lapsed, stopped,
                 settled, calendarSwept>>
-----------------------------------------------------------------------------
(* The webhook route, after it has the outcome of a delivery.              *)

SettleDeclinedRenewal(r) ==
  /\ r.verdict = "RENEWAL_DECLINED"
  /\ \E accepted \in Answers("stop") : StopIsAnswered({ParentOf[r.id.order]}, accepted)
  /\ UNCHANGED <<gw, sent>>

RefundIsAnswered(o, accepted) ==
  IF accepted
  THEN /\ gw' = [gw EXCEPT ![o] = "returned"]
       /\ sent' = sent \union {Callback(o, "REFUNDED")}
  ELSE UNCHANGED <<gw, sent>>

(* The stop and the refund fail independently of each other.               *)
SettleUnwantedRenewal(r) ==
  /\ r.verdict = "RENEWAL_UNWANTED"
  /\ \E stop \in Answers("stop"), refund \in Answers("refund") :
       /\ StopIsAnswered({ParentOf[r.id.order]}, stop)
       /\ RefundIsAnswered(r.id.order, refund /\ gw[r.id.order] = "approved")

ActOnReport(r) ==
  /\ r \in reports \ settled
  /\ settled' = settled \union {r}
  /\ SettleDeclinedRenewal(r) \/ SettleUnwantedRenewal(r)
  /\ UNCHANGED <<payments, subs, apartVars, form, opened, lapsed, canceling,
                 calendarSwept>>
-----------------------------------------------------------------------------
(* The rest of the daily cron.                                             *)

(* What the gateway's status call may say of an order; an answer that names *)
(* no status, as of an order it never heard of, is read as PROCESSING.      *)
Verified(o) ==
  CASE gw[o] = "approved" -> {"SUCCEEDED"}
    [] gw[o] = "returned" -> {"REFUNDED"}
    [] gw[o] = "closed"   -> {"EXPIRED", "CANCELED"}
    [] gw[o] = "open"     -> {"CREATED"} \union (IF attempts[o] > 0 THEN {"FAILED"} ELSE {})
    [] OTHER              -> {"PROCESSING"}

StaleKeepsWaiting(st) == st   \* faulty: an open order is fed back as it is

StaleOrderStatus(st) == IF st \in {"SUCCEEDED", "FAILED"} THEN st ELSE "EXPIRED"

SweepAnswer(o, st) ==
  [order |-> o, status |-> StaleOrderStatus(st), attempt |-> 0, via |-> "sweep",
   signed |-> TRUE, amount |-> "match"]

(* sweepStaleCheckouts: the answer goes through the webhook as a delivery   *)
(* of its own, whose event id names the sweep.                             *)
SweepStaleCheckout(o) ==
  /\ payments[o] \in {"CREATED", "PROCESSING"}
  /\ opened[o] + StaleAfter <= now
  /\ \E st \in Verified(o) : sent' = sent \union {SweepAnswer(o, st)}
  /\ UNCHANGED <<payments, subs, gw, apartVars, appVars>>

(* stopCanceledCalendars: every cancelled subscription's opening order is    *)
(* sent a stop once, whatever the answer; a call that fails is tried again. *)
StopCanceledCalendar(o) ==
  /\ subs[SubOf[o]].status = "CANCELED" \/ subs[SubOf[o]].cancelAtEnd
  /\ payments[o] \in {"SUCCEEDED", "REFUNDED"}
  /\ o \notin calendarSwept
  /\ calendarSwept' = calendarSwept \union {o}
  /\ \E accepted \in Answers("stop") : StopIsAnswered({o}, accepted)
  /\ UNCHANGED <<payments, subs, gw, sent, apartVars, form, opened, lapsed,
                 canceling, settled>>
-----------------------------------------------------------------------------
(* A calendar charges on its due days, once each, until it is stopped.     *)
ChargeDue(r) ==
  /\ Recurring
  /\ ParentOf[r] \notin stopped
  /\ opened[ParentOf[r]] + ChargeOf[r] * Period <= now

CalendarsKeepDates == \A r \in Orders : gw[r] = "none" /\ gw'[r] # "none" => ChargeDue(r)

(* No form, cancellation or cron run lasts a day.                          *)
AppIdle ==
  /\ \A c \in Closers : lapsed[c] = {}
  /\ \A o \in Checkouts : form[o] \notin {"checking", "asking"}
  /\ \A s \in Subs : canceling[s] = "no"
  /\ \A d \in sent : d.via = "sweep" => ClaimedId(d) \in events

WebhookStep ==
  \/ GatewayStep /\ CalendarsKeepDates
  \/ \E h \in Handlers : \/ \E d \in sent : ReceiveDelivery(h, d)
                         \/ HandlerStep(h)
                         \/ Crash(h)
  \/ AppIdle /\ Tick

CheckoutStep(o) ==
  \/ StartSubscriptionCheckout(o) \/ RefuseSecond(o) \/ CreateCheckout(o)
  \/ GatewayOpensCheckout(o) \/ GatewayRefusesCheckout(o) \/ DieBeforeGateway(o)

CancelStep(s) ==
  \/ s \in Leavers /\ CancelSubscription(s)
  \/ StopBeforeCancel(s) \/ WriteCancellation(s)

CronStep ==
  \/ FindLapsed
  \/ \E o \in Checkouts : SweepStaleCheckout(o) \/ StopCanceledCalendar(o)

AppNext ==
  \/ WebhookStep /\ UNCHANGED appVars
  \/ \E o \in Checkouts : CheckoutStep(o)
  \/ \E c \in Closers, s \in Subs : CloseLapsed(c, s)
  \/ \E s \in Subs : CancelStep(s)
  \/ \E r \in reports : ActOnReport(r)
  \/ CronStep

AppSpec == AppInit /\ [][AppNext]_allVars
-----------------------------------------------------------------------------
(* After a cancellation is confirmed the gateway starts no further charge   *)
(* on the subscription: it was stopped first (service.ts:211-221).  A        *)
(* calendar that a decline may have struck from the row is left to the      *)
(* route's own stop and to the calendar sweep.                             *)
Declined(s) ==
  \E e \in events : e.status = "FAILED" /\ IsRenewal(e.order) /\ SubOf[e.order] = s

CancelStopsCharges ==
  [][\A r \in Orders :
       IsRenewal(r) /\ gw[r] = "none" /\ subs[SubOf[r]].cancelAtEnd /\ ~Declined(SubOf[r])
         => gw'[r] = "none"]_allVars

(* Buying again is refused only while a month of the plan is running or its *)
(* renewal may still arrive: one that has run out is closed first           *)
(* (service.ts:60-63).                                                     *)
ConflictOnlyWhileRunning ==
  [][\A o \in Checkouts :
       form[o] = "checking" /\ form'[o] = "conflict" =>
         \E s \in RunningOf(o) : now < subs[s].end + Grace]_allVars

(* A payment that came to nothing leaves no subscription waiting for it,    *)
(* whether the gateway refused the checkout, declined, or was asked by the  *)
(* sweep (abandon.ts:6-12).                                                *)
NoStuckPending ==
  AllIdle => \A o \in Checkouts :
    payments[o] \in Closing => subs[SubOf[o]].status # "PENDING"

(* A renewal's money either buys its period or is put up for refund, in     *)
(* whatever order the cancellation, the expiry and the charge meet.        *)
RenewalHonoured ==
  AllIdle /\ thrown = {} => \A r \in Orders :
    IsRenewal(r) /\ payments[r] = "SUCCEEDED" =>
      \/ subs[SubOf[r]].end >= opened[ParentOf[r]] + (ChargeOf[r] + 1) * Period
      \/ \E p \in reports : p.id.order = r /\ p.verdict = "RENEWAL_UNWANTED"

(* The expiry takes a row that still opens its plan only if the row's end   *)
(* has been moved since the cron, or a checkout, read it as lapsed: by a     *)
(* renewal, or a second checkout folded into the row, that landed in         *)
(* between.  The update looks at the status alone (expiry.ts:51-58).        *)
ExpiryTakesOnlyRenewed ==
  [][\A s \in Subs :
       /\ subs[s].status = "ACTIVE" /\ subs'[s].status = "EXPIRED"
       /\ GrantsAccess(s)
       => \E c \in Closers : \E r \in lapsed[c] \ lapsed'[c] :
            r.row = s /\ r.end < subs[s].end]_allVars

(* "Guarded by status, so a renewal that lands at the same moment wins"      *)
(* (expiry.ts:51).                                                         *)
RenewalWins ==
  [][\A s \in Subs :
       subs[s].status = "ACTIVE" /\ subs'[s].status = "EXPIRED" => ~GrantsAccess(s)]_allVars
-----------------------------------------------------------------------------
(* Fairness: days pass, requests and cron runs end, and the scheduler fires *)
(* the cron on every one of them.  Nothing is asked of the callbacks: the   *)
(* gateway may never deliver one.                                          *)
SweepAnswers == {SweepAnswer(o, st) : o \in Checkouts, st \in PaymentStatuses}

FairAppSpec ==
  /\ AppSpec
  /\ SF_allVars(WebhookStep /\ now' # now /\ UNCHANGED appVars)
  /\ \A h \in Handlers : WF_allVars(HandlerStep(h) /\ UNCHANGED appVars)
  /\ \A d \in SweepAnswers :
       SF_allVars(d \in sent /\ \E h \in Handlers : ReceiveDelivery(h, d) /\ UNCHANGED appVars)
  /\ \A o \in Checkouts : /\ WF_allVars(RefuseSecond(o) \/ CreateCheckout(o))
                          /\ WF_allVars(GatewayOpensCheckout(o))
                          /\ SF_allVars(SweepStaleCheckout(o))
  /\ \A c \in Closers, s \in Subs : WF_allVars(CloseLapsed(c, s))
  /\ \A s \in Subs : WF_allVars(StopBeforeCancel(s) \/ WriteCancellation(s))

(* No checkout waits for ever, callbacks or not: once its day is over the   *)
(* sweep finds out what became of it (sweep.ts:8-19), and writes off one of  *)
(* which the gateway never heard.  Checkouts opened so late that the         *)
(* bounded clock never reaches that day are left out.                       *)
Waiting(o) == payments[o] \in {"CREATED", "PROCESSING"}

StaleResolved ==
  \A o \in Checkouts :
    Waiting(o) /\ opened[o] + StaleAfter <= MaxTime ~> ~Waiting(o)
=============================================================================
