--------------------------- MODULE PaymentWebhook ---------------------------
(***************************************************************************)
(* processPaymentWebhook and processRenewal (webhook.ts) over the rows of   *)
(* PaymentStore.  A handler is one HTTP request: it claims the event id,    *)
(* reads the payment, decides, and then makes one port call after another.  *)
(* Each call is its own transaction, so handlers interleave between calls,  *)
(* and a crash or a thrown error leaves the calls already made in place.    *)
(*                                                                         *)
(* The gateway is external.  It knows the truth about each order, signs the *)
(* callbacks it sends, and may deliver each of them any number of times, in *)
(* any order, or not at all.                                               *)
(***************************************************************************)
EXTENDS PaymentStore, FiniteSets

CONSTANTS
  Handlers,         \* requests that can be in flight at once
  Reported,         \* statuses the gateway reports in this instance
  Noise,            \* posts to the endpoint that are not its true callbacks
  Foreign,          \* orders of the merchant account that are not ours
  Declines,         \* bound: attempts the gateway declines, by order
  Repeats,          \* bound: attempts up to which it repeats an approval
  MaxCrashes,       \* bound: requests that die half way
  MaxTime           \* bound: days the clock runs

ReportedStatuses == PaymentStatuses \union {"UNKNOWN"}

Delivery ==
  [ order   : Orders,
    status  : ReportedStatuses,   \* "UNKNOWN": outside the known vocabulary
    attempt : Nat,                \* with order, the gateway's payment_id
    via     : {"callback", "sweep"},
    signed  : BOOLEAN,
    amount  : {"match", "wrong", "absent"} ]

EventId ==
  [ order : Orders, status : ReportedStatuses, attempt : Nat,
    via : {"callback", "sweep", "unsigned"} ]

ASSUME WebhookAssumption ==
  /\ Reported \subseteq PaymentStatuses
  /\ Noise \subseteq Delivery
  /\ Foreign \subseteq {o \in Orders : ParentOf[o] = None}
  /\ Declines \in [Orders -> Nat] /\ Repeats \in [Orders -> Nat]
  /\ MaxCrashes \in Nat /\ MaxTime \in Nat

(* Nobody but the gateway signs a post about an order of ours, and it signs *)
(* a success or a return only at another price.                            *)
ASSUME NoiseAssumption ==
  \A d \in Noise :
    d.signed /\ d.status \in Captured /\ d.amount # "wrong" =>
      d.order \in Foreign \/ (d.status = "SUCCEEDED" /\ d.amount = "absent")

VARIABLES
  gw,         \* the gateway's own state of each order
  attempts,   \* attempts it has numbered so far, per order
  sent,       \* deliveries that exist and may arrive
  events,     \* WebhookEvent ids already claimed
  reports,    \* outcomes the route acts on after the answer
  thrown,     \* events whose processing ended in an error (HTTP 500)
  crashes,    \* requests that have died half way
  pc,         \* what a handler does next
  msg,        \* the delivery it works on
  seen,       \* the payment status it read
  fold,       \* the running row and its end, as activateSubscription read them
  verdict     \* the outcome it will write and report

gatewayVars == <<gw, attempts, sent>>
handlerVars == <<pc, msg, seen, fold, verdict>>
auditVars   == <<events, reports, thrown, crashes>>
vars == <<dbVars, now, gatewayVars, auditVars, handlerVars>>

GatewayStates == {"none", "open", "approved", "returned", "closed"}

Steps ==
  {"idle", "decide", "transition", "saveCard", "activate", "open", "fold",
   "deactivate", "closePending", "grant", "revoke", "credit", "reverse",
   "endCalendar", "recordRenewal", "renew", "mark"}

Verdicts ==
  {"none", "REJECTED_SIGNATURE", "UNKNOWN_STATUS", "PAYMENT_NOT_FOUND",
   "AMOUNT_MISMATCH", "TRANSITION_NOT_ALLOWED", "APPLIED", "RENEWAL_APPLIED",
   "RENEWAL_DECLINED", "RENEWAL_UNWANTED", "RENEWAL_IGNORED"}

(* settleDeclinedRenewal and settleUnwantedRenewal follow these two.       *)
ActedOn == {"RENEWAL_DECLINED", "RENEWAL_UNWANTED"}

FoldRead == [ running : Subs \union {None}, base : Nat ]
NoFold == [running |-> None, base |-> 0]

GatewayTypeOK ==
  /\ gw \in [Orders -> GatewayStates]
  /\ attempts \in [Orders -> Nat]
  /\ sent \subseteq Delivery

AuditTypeOK ==
  /\ events \subseteq EventId
  /\ reports \subseteq [id : EventId, verdict : ActedOn]
  /\ thrown \subseteq EventId
  /\ crashes \in Nat

HandlerTypeOK ==
  /\ pc \in [Handlers -> Steps]
  /\ msg \in [Handlers -> Delivery \union {None}]
  /\ seen \in [Handlers -> PaymentRowStates]
  /\ fold \in [Handlers -> FoldRead]
  /\ verdict \in [Handlers -> Verdicts]
  /\ \A h \in Handlers : pc[h] # "idle" => msg[h] \in Delivery

TypeOK == StoreTypeOK /\ GatewayTypeOK /\ AuditTypeOK /\ HandlerTypeOK
-----------------------------------------------------------------------------
IsRenewal(o) == ParentOf[o] # None

(* Every checkout is open at the gateway: two tabs, or two buyers.         *)
Init ==
  /\ payments = [o \in Orders |-> IF IsRenewal(o) \/ o \in Foreign THEN "NONE"
                                                             ELSE "CREATED"]
  /\ \E recurring \in BOOLEAN :
       subs = [s \in Subs |-> [status |-> "PENDING", canceledBy |-> "none",
                               cancelAtEnd |-> FALSE, end |-> 0,
                               calendar |-> recurring, card |-> FALSE]]
  /\ purchases = [t \in Tickets |-> [payment |-> None, revoked |-> FALSE]]
  /\ ledger = {}
  /\ earnings = [a \in Analysts |-> 0]
  /\ now = 0
  /\ gw = [o \in Orders |-> IF IsRenewal(o) THEN "none"
                            ELSE IF o \in Foreign THEN "closed" ELSE "open"]
  /\ attempts = [o \in Orders |-> 0]
  /\ sent = Noise
  /\ events = {} /\ reports = {} /\ thrown = {} /\ crashes = 0
  /\ pc = [h \in Handlers |-> "idle"]
  /\ msg = [h \in Handlers |-> None]
  /\ seen = [h \in Handlers |-> "NONE"]
  /\ fold = [h \in Handlers |-> NoFold]
  /\ verdict = [h \in Handlers |-> "none"]
-----------------------------------------------------------------------------
(* The gateway.                                                            *)

Attempt(o, st, n) ==
  [order |-> o, status |-> st, attempt |-> n, via |-> "callback",
   signed |-> TRUE, amount |-> "match"]

Callback(o, st) == Attempt(o, st, attempts[o])

Report(o, st) ==
  /\ st \in Reported
  /\ sent' = sent \union {Callback(o, st)}

(* The customer is at the gateway's page; nothing is decided yet.          *)
GatewayProcesses(o) ==
  /\ gw[o] = "open"
  /\ Report(o, "PROCESSING")
  /\ UNCHANGED <<gw, attempts>>

(* A declined card; the page lets the customer try another one under the    *)
(* same order.  A declined renewal is not tried again.                     *)
GatewayDeclines(o) ==
  /\ gw[o] = "open"
  /\ attempts[o] < Declines[o]
  /\ Report(o, "FAILED")
  /\ attempts' = [attempts EXCEPT ![o] = @ + 1]
  /\ gw' = IF IsRenewal(o) THEN [gw EXCEPT ![o] = "closed"] ELSE gw

GatewayApproves(o) ==
  /\ gw[o] = "open"
  /\ Report(o, "SUCCEEDED")
  /\ gw' = [gw EXCEPT ![o] = "approved"]
  /\ UNCHANGED attempts

(* One approval reported under a second payment id (the case                *)
(* recordRenewalPayment names: the same order under another event id).     *)
GatewayRepeats(o) ==
  /\ gw[o] = "approved"
  /\ attempts[o] < Repeats[o]
  /\ attempts' = [attempts EXCEPT ![o] = @ + 1]
  /\ "SUCCEEDED" \in Reported
  /\ sent' = sent \union {Attempt(o, "SUCCEEDED", attempts[o] + 1)}
  /\ UNCHANGED gw

(* The order's page expires, or the customer cancels it.                   *)
GatewayCloses(o) ==
  /\ gw[o] = "open"
  /\ \E st \in {"EXPIRED", "CANCELED"} : Report(o, st)
  /\ gw' = [gw EXCEPT ![o] = "closed"]
  /\ UNCHANGED attempts

(* A refund or a chargeback; one may follow the other.                     *)
GatewayReturns(o) ==
  /\ gw[o] \in {"approved", "returned"}
  /\ \E st \in Reversing : Report(o, st)
  /\ gw' = [gw EXCEPT ![o] = "returned"]
  /\ UNCHANGED attempts

(* The calendar left behind by an approved checkout comes due.             *)
GatewayRenews(o) ==
  /\ IsRenewal(o)
  /\ gw[o] = "none"
  /\ gw[ParentOf[o]] \in {"approved", "returned"}
  /\ gw' = [gw EXCEPT ![o] = "open"]
  /\ UNCHANGED <<attempts, sent>>

GatewayStep ==
  /\ \E o \in Orders :
       \/ GatewayProcesses(o) \/ GatewayDeclines(o) \/ GatewayApproves(o)
       \/ GatewayRepeats(o) \/ GatewayCloses(o) \/ GatewayReturns(o)
       \/ GatewayRenews(o)
  /\ UNCHANGED <<dbVars, now, auditVars, handlerVars>>
-----------------------------------------------------------------------------
(* The handler: claiming the event and deciding.                           *)

Goto(h, step) == pc' = [pc EXCEPT ![h] = step]

ClaimedByAnyone(d) ==   \* faulty: a forgery takes the id it names
  [ order |-> d.order, status |-> d.status, attempt |-> d.attempt, via |-> d.via ]

(* The row id a delivery is recorded under.  Only a signed delivery may     *)
(* claim its event id; a forgery is filed under an id of its own.          *)
ClaimedId(d) ==
  [ order |-> d.order, status |-> d.status, attempt |-> d.attempt,
    via |-> IF d.signed THEN d.via ELSE "unsigned" ]

(* recordEvent: the unique (providerCode, eventId) index lets one delivery  *)
(* of an event through; every other one is DUPLICATE_IGNORED on the spot.  *)
ReceiveDelivery(h, d) ==
  /\ pc[h] = "idle"
  /\ ClaimedId(d) \notin events
  /\ events' = events \union {ClaimedId(d)}
  /\ msg' = [msg EXCEPT ![h] = d]
  /\ Goto(h, "decide")
  /\ UNCHANGED <<dbVars, now, gatewayVars, reports, thrown, crashes,
                 seen, fold, verdict>>

AmountNeverRefused(d) == FALSE   \* faulty: any price is taken

AmountRefused(d) ==
  d.amount = "wrong" \/ (d.amount = "absent" /\ d.status = "SUCCEEDED")

Found(o) == payments[o] # "NONE"

(* Signed, naming an order and a known status.                             *)
Readable(d) == d.signed /\ d.status # "UNKNOWN"

(* A charge the gateway made on its own, from the calendar of a checkout.  *)
FromCalendar(d) ==
  /\ Readable(d)
  /\ ~Found(d.order)
  /\ IsRenewal(d.order)
  /\ Found(ParentOf[d.order])

Reject(h, reason) ==
  /\ Goto(h, "mark")
  /\ verdict' = [verdict EXCEPT ![h] = reason]
  /\ UNCHANGED seen

Accept(h, step) ==
  /\ Goto(h, step)
  /\ seen' = [seen EXCEPT ![h] = payments[msg[h].order]]
  /\ UNCHANGED verdict

(* A first payment, or any order that already has its row.                 *)
DecidePayment(h, d) ==
  /\ Readable(d)
  /\ Found(d.order)
  /\ \/ AmountRefused(d) /\ Reject(h, "AMOUNT_MISMATCH")
     \/ /\ ~AmountRefused(d)
        /\ ~CanTransition(payments[d.order], d.status)
        /\ Reject(h, "TRANSITION_NOT_ALLOWED")
     \/ /\ ~AmountRefused(d)
        /\ CanTransition(payments[d.order], d.status)
        /\ Accept(h, "transition")

DecideRenewal(h, d) ==
  /\ FromCalendar(d)
  /\ \/ d.status = "FAILED" /\ Accept(h, "endCalendar")
     \/ d.status \notin {"FAILED", "SUCCEEDED"} /\ Reject(h, "RENEWAL_IGNORED")
     \/ d.status = "SUCCEEDED" /\ AmountRefused(d) /\ Reject(h, "AMOUNT_MISMATCH")
     \/ d.status = "SUCCEEDED" /\ ~AmountRefused(d) /\ Accept(h, "recordRenewal")

(* findPaymentByOrderId and the guards after it: everything until the next  *)
(* port call works on this one read.                                       *)
Decide(h) ==
  /\ pc[h] = "decide"
  /\ LET d == msg[h] IN
       \/ ~d.signed /\ Reject(h, "REJECTED_SIGNATURE")
       \/ d.signed /\ d.status = "UNKNOWN" /\ Reject(h, "UNKNOWN_STATUS")
       \/ /\ Readable(d) /\ ~Found(d.order) /\ ~FromCalendar(d)
          /\ Reject(h, "PAYMENT_NOT_FOUND")
       \/ DecidePayment(h, d)
       \/ DecideRenewal(h, d)
  /\ UNCHANGED <<dbVars, now, gatewayVars, auditVars, msg, fold>>
-----------------------------------------------------------------------------
(* The handler: one port call per step.                                    *)

order(h) == msg[h].order
sub(h)   == SubOf[msg[h].order]

AfterTransitionNoRefund(o, st) ==   \* faulty: a return leaves the access open
  IF st = "SUCCEEDED"
  THEN IF SubOf[o] # None THEN {"saveCard", "activate"} ELSE {"grant"}
  ELSE IF st \in Reversing THEN {"reverse"}
  ELSE IF st \in Closing /\ SubOf[o] # None THEN {"closePending"} ELSE {"mark"}

(* The port call after transitionPayment.  A success may or may not carry a *)
(* card token.                                                             *)
AfterTransition(o, st) ==
  IF st = "SUCCEEDED"
  THEN IF SubOf[o] # None THEN {"saveCard", "activate"} ELSE {"grant"}
  ELSE IF st \in Reversing
  THEN IF SubOf[o] # None THEN {"deactivate"} ELSE {"revoke"}
  ELSE IF st \in Closing /\ SubOf[o] # None THEN {"closePending"} ELSE {"mark"}

Transition(h) ==
  /\ pc[h] = "transition"
  /\ TransitionPayment(order(h), seen[h], msg[h].status)
  /\ verdict' = [verdict EXCEPT ![h] = "APPLIED"]
  /\ \E step \in AfterTransition(order(h), msg[h].status) : Goto(h, step)
  /\ UNCHANGED <<subs, purchases, ledger, earnings, now, gatewayVars,
                 auditVars, msg, seen, fold>>

SaveCard(h) ==
  /\ pc[h] = "saveCard"
  /\ SaveCardToken(sub(h))
  /\ Goto(h, IF verdict[h] = "RENEWAL_APPLIED" THEN "mark" ELSE "activate")
  /\ UNCHANGED <<payments, purchases, ledger, earnings, now, gatewayVars,
                 auditVars, msg, seen, fold, verdict>>

(* The reads of activateSubscription: an ACTIVE row has nothing to do, and  *)
(* a running row of the same plan is remembered with its end.              *)
ReadRunning(h) ==
  /\ pc[h] = "activate"
  /\ \/ /\ subs[sub(h)].status = "ACTIVE"
        /\ Goto(h, "credit")
        /\ UNCHANGED fold
     \/ /\ subs[sub(h)].status # "ACTIVE"
        /\ RunningBeside(sub(h)) = {}
        /\ Goto(h, "open")
        /\ UNCHANGED fold
     \/ /\ subs[sub(h)].status # "ACTIVE"
        /\ \E r \in RunningBeside(sub(h)) :
             fold' = [fold EXCEPT ![h] = [running |-> r, base |-> subs[r].end]]
        /\ Goto(h, "fold")
  /\ UNCHANGED <<dbVars, now, gatewayVars, auditVars, msg, seen, verdict>>

Forget(h) ==
  /\ Goto(h, "idle")
  /\ msg' = [msg EXCEPT ![h] = None]
  /\ seen' = [seen EXCEPT ![h] = "NONE"]
  /\ fold' = [fold EXCEPT ![h] = NoFold]
  /\ verdict' = [verdict EXCEPT ![h] = "none"]

(* An error the port does not catch: the request answers 500.              *)
Throw(h) ==
  /\ thrown' = thrown \union {ClaimedId(msg[h])}
  /\ Forget(h)
  /\ UNCHANGED <<dbVars, events, reports, crashes>>

(* The writes of activateSubscription.  The transaction does not lock what  *)
(* it read, so the unique index may refuse the row by now.                 *)
Open(h) ==
  /\ pc[h] = "open"
  /\ IF Openable(sub(h)) /\ ActiveKeyTaken(sub(h))
     THEN Throw(h)
     ELSE /\ OpenSubscription(sub(h))
          /\ Goto(h, "credit")
          /\ UNCHANGED <<payments, purchases, ledger, earnings, auditVars,
                         msg, seen, fold, verdict>>
  /\ UNCHANGED <<now, gatewayVars>>

Fold(h) ==
  /\ pc[h] = "fold"
  /\ FoldSubscription(sub(h), fold[h].running, fold[h].base)
  /\ fold' = [fold EXCEPT ![h] = NoFold]
  /\ Goto(h, "credit")
  /\ UNCHANGED <<payments, purchases, ledger, earnings, now, gatewayVars,
                 auditVars, msg, seen, verdict>>

Deactivate(h) ==
  /\ pc[h] = "deactivate"
  /\ DeactivateSubscription(sub(h))
  /\ Goto(h, "reverse")
  /\ UNCHANGED <<payments, purchases, ledger, earnings, now, gatewayVars,
                 auditVars, msg, seen, fold, verdict>>

ClosePending(h) ==
  /\ pc[h] = "closePending"
  /\ ClosePendingSubscription(sub(h))
  /\ Goto(h, "mark")
  /\ UNCHANGED <<payments, purchases, ledger, earnings, now, gatewayVars,
                 auditVars, msg, seen, fold, verdict>>

Grant(h) ==
  /\ pc[h] = "grant"
  /\ GrantTicketPurchase(order(h))
  /\ Goto(h, "credit")
  /\ UNCHANGED <<payments, subs, ledger, earnings, now, gatewayVars,
                 auditVars, msg, seen, fold, verdict>>

Revoke(h) ==
  /\ pc[h] = "revoke"
  /\ RevokeTicketPurchase(order(h))
  /\ Goto(h, "reverse")
  /\ UNCHANGED <<payments, subs, ledger, earnings, now, gatewayVars,
                 auditVars, msg, seen, fold, verdict>>

(* A first payment credits last; a renewal credits before it renews.       *)
Credit(h) ==
  /\ pc[h] = "credit"
  /\ CreditAnalystEarning(order(h))
  /\ Goto(h, IF verdict[h] = "APPLIED" THEN "mark" ELSE "renew")
  /\ UNCHANGED <<payments, subs, purchases, now, gatewayVars, auditVars,
                 msg, seen, fold, verdict>>

Reverse(h) ==
  /\ pc[h] = "reverse"
  /\ ReverseAnalystEarning(order(h))
  /\ Goto(h, "mark")
  /\ UNCHANGED <<payments, subs, purchases, now, gatewayVars, auditVars,
                 msg, seen, fold, verdict>>
-----------------------------------------------------------------------------
(* The handler: processRenewal.                                            *)

EndCalendar(h) ==
  /\ pc[h] = "endCalendar"
  /\ EndRenewalCalendar(sub(h))
  /\ verdict' = [verdict EXCEPT ![h] =
       IF CalendarLive(sub(h)) THEN "RENEWAL_DECLINED" ELSE "RENEWAL_IGNORED"]
  /\ Goto(h, "mark")
  /\ UNCHANGED <<payments, purchases, ledger, earnings, now, gatewayVars,
                 auditVars, msg, seen, fold>>

RecordRenewalEveryTime(h) ==   \* faulty: the caught index error looks like a first
  /\ pc[h] = "recordRenewal"
  /\ RecordRenewalPayment(order(h))
  /\ verdict' = [verdict EXCEPT ![h] = "RENEWAL_UNWANTED"]
  /\ Goto(h, "credit")
  /\ UNCHANGED <<subs, purchases, ledger, earnings, now, gatewayVars,
                 auditVars, msg, seen, fold>>

RecordRenewalUnreported(h) ==   \* faulty: an unwanted charge goes unreported
  /\ pc[h] = "recordRenewal"
  /\ RecordRenewalPayment(order(h))
  /\ verdict' = [verdict EXCEPT ![h] = "RENEWAL_IGNORED"]
  /\ Goto(h, IF Found(order(h)) THEN "renew" ELSE "credit")
  /\ UNCHANGED <<subs, purchases, ledger, earnings, now, gatewayVars,
                 auditVars, msg, seen, fold>>

(* The first delivery of a renewal order records its payment and goes on to *)
(* credit it; another one holds no payment id and skips the credit.  The    *)
(* verdict it would report for an unwanted renewal is settled here.        *)
RecordRenewal(h) ==
  /\ pc[h] = "recordRenewal"
  /\ RecordRenewalPayment(order(h))
  /\ IF Found(order(h))
     THEN /\ verdict' = [verdict EXCEPT ![h] = "RENEWAL_IGNORED"]
          /\ Goto(h, "renew")
     ELSE /\ verdict' = [verdict EXCEPT ![h] = "RENEWAL_UNWANTED"]
          /\ Goto(h, "credit")
  /\ UNCHANGED <<subs, purchases, ledger, earnings, now, gatewayVars,
                 auditVars, msg, seen, fold>>

(* renewSubscription has no fold: reopening a closed row while another one  *)
(* of the plan is ACTIVE breaks the unique index.                          *)
Renew(h) ==
  /\ pc[h] = "renew"
  /\ IF Renewable(sub(h)) /\ subs[sub(h)].status # "ACTIVE" /\ ActiveKeyTaken(sub(h))
     THEN Throw(h)
     ELSE /\ RenewSubscription(sub(h))
          /\ \/ /\ Renewable(sub(h))
                /\ verdict' = [verdict EXCEPT ![h] = "RENEWAL_APPLIED"]
                /\ \E step \in {"saveCard", "mark"} : Goto(h, step)
             \/ /\ ~Renewable(sub(h))
                /\ Goto(h, "mark")
                /\ UNCHANGED verdict
          /\ UNCHANGED <<payments, purchases, ledger, earnings, auditVars,
                         msg, seen, fold>>
  /\ UNCHANGED <<now, gatewayVars>>

(* markProcessed, and the answer to the gateway.                           *)
Mark(h) ==
  /\ pc[h] = "mark"
  /\ reports' = reports \union
       {[id |-> ClaimedId(msg[h]), verdict |-> v] : v \in {verdict[h]} \intersect ActedOn}
  /\ Forget(h)
  /\ UNCHANGED <<dbVars, now, gatewayVars, events, thrown, crashes>>

(* The process dies between two calls; what it has committed stays.        *)
Crash(h) ==
  /\ pc[h] # "idle"
  /\ crashes < MaxCrashes
  /\ crashes' = crashes + 1
  /\ Forget(h)
  /\ UNCHANGED <<dbVars, now, gatewayVars, events, reports, thrown>>

HandlerStep(h) ==
  \/ Decide(h) \/ Transition(h) \/ SaveCard(h) \/ ReadRunning(h) \/ Open(h)
  \/ Fold(h) \/ Deactivate(h) \/ ClosePending(h) \/ Grant(h) \/ Revoke(h)
  \/ Credit(h) \/ Reverse(h) \/ EndCalendar(h) \/ RecordRenewal(h)
  \/ Renew(h) \/ Mark(h)

(* A request does not last a day.                                          *)
AllIdle == \A h \in Handlers : pc[h] = "idle"

Tick ==
  /\ AllIdle
  /\ now < MaxTime
  /\ now' = now + 1
  /\ UNCHANGED <<dbVars, gatewayVars, auditVars, handlerVars>>

Next ==
  \/ GatewayStep
  \/ \E h \in Handlers : \/ \E d \in sent : ReceiveDelivery(h, d)
                         \/ HandlerStep(h)
                         \/ Crash(h)
  \/ Tick

Spec == Init /\ [][Next]_vars
-----------------------------------------------------------------------------
(* The payment table behaves as PaymentLifecycle promises: one allowed edge *)
(* at a time, also when two handlers decided on the same stale status       *)
(* (webhook.ts:16, "cannot walk a payment backwards").                     *)
Lifecycle == INSTANCE PaymentLifecycle WITH Payments <- Orders, status <- payments
PaymentsFollowLifecycle == Lifecycle!Spec

(* One ACTIVE subscription per user and plan (prisma-port.ts:151), however   *)
(* many tabs, retries and renewals race to open one.                       *)
OneActivePerPlan ==
  \A r, s \in Subs :
    /\ r # s
    /\ PlanOf[r] = PlanOf[s]
    => ~(subs[r].status = "ACTIVE" /\ subs[s].status = "ACTIVE")

(* Money has really been taken for this order at the gateway.              *)
Paid(o) == gw[o] \in {"approved", "returned"}

(* Nothing is given for an order the gateway never approved: no ledger row, *)
(* no captured status, no ticket and no active subscription, whatever was   *)
(* declined, expired, duplicated or forged on the way (webhook.ts:15-19).   *)
NoUnpaidMoney ==
  \A o \in Orders : Earned(o) \/ TakenBack(o) \/ payments[o] \in Captured => Paid(o)

NoUnpaidSubscription ==
  \A s \in Subs : subs[s].status = "ACTIVE" =>
    \E o \in Orders : SubOf[o] # None /\ PlanOf[SubOf[o]] = PlanOf[s] /\ Paid(o)

NoUnpaidTicket ==
  \A t \in Tickets : purchases[t].payment # None => Paid(purchases[t].payment)

NothingUnpaid == NoUnpaidMoney /\ NoUnpaidSubscription /\ NoUnpaidTicket

(* A row a person cancelled or the system folded stays shut                 *)
(* (prisma-port.ts:222-226).                                               *)
ShutRowsStayShut ==
  [][\A s \in Subs :
       subs[s].status = "CANCELED" /\ subs[s].canceledBy \in {"USER", "SYSTEM"}
         => subs'[s].status = "CANCELED"]_vars
-----------------------------------------------------------------------------
(* What the invariants above rest on: the handler's control state agrees    *)
(* with what it holds in hand.                                             *)

(* Only the gateway signs, and what it signs about our orders is true.     *)
SignedIsTrue ==
  \A d \in sent :
    d.signed /\ d.status \in Captured /\ ~AmountRefused(d) /\ d.order \notin Foreign
      => Paid(d.order)

ForeignUnknown == \A o \in Foreign : payments[o] = "NONE"

RenewalSteps == {"endCalendar", "recordRenewal", "renew"}

SubscriptionSteps ==
  {"saveCard", "activate", "open", "fold", "deactivate", "closePending"}

OpeningSteps == {"activate", "open", "fold", "grant"}

PaidSteps ==
  {"saveCard", "activate", "open", "fold", "deactivate", "grant", "revoke",
   "credit", "reverse", "recordRenewal", "renew"}

Holds(h) ==
  /\ pc[h] # "idle" => msg[h] \in sent
  /\ pc[h] = "transition" =>
       /\ seen[h] # "NONE"
       /\ CanTransition(seen[h], msg[h].status)
       /\ msg[h].status \in Captured => Paid(order(h))
  /\ pc[h] \in PaidSteps => Paid(order(h))
  /\ pc[h] \in SubscriptionSteps => sub(h) # None
  /\ pc[h] \in RenewalSteps => IsRenewal(order(h))
  /\ pc[h] \in OpeningSteps => verdict[h] = "APPLIED"
  /\ pc[h] = "saveCard" => verdict[h] \in {"APPLIED", "RENEWAL_APPLIED"}
  /\ pc[h] = "credit" /\ verdict[h] # "APPLIED" => IsRenewal(order(h))

Control == SignedIsTrue /\ ForeignUnknown /\ \A h \in Handlers : Holds(h)
=============================================================================
