------------------------- MODULE PaymentProperties -------------------------
(***************************************************************************)
(* What the webhook is meant to guarantee, over the states and steps of     *)
(* PaymentWebhook, and the fairness under which it is meant to make         *)
(* progress.                                                               *)
(***************************************************************************)
EXTENDS PaymentWebhook, FiniteSetsExt

(* earningsMinor is the sum of the ledger's rows: a movement is made once   *)
(* per payment and direction, and never without its row (ledger.ts:39-64). *)
Amount(row) ==
  IF row.kind = "ANALYST_EARNING" THEN Share[row.order] ELSE -Share[row.order]

EarningsMatchLedger ==
  \A a \in Analysts :
    earnings[a] = MapThenSumSet(Amount, {row \in ledger : AnalystOf[row.order] = a})

(* Once every request has been answered, the analyst has been credited for  *)
(* exactly the captured payments and charged back for exactly the returned  *)
(* ones (webhook.ts:26-27).                                                *)
LedgerMatchesStatus ==
  AllIdle => \A o \in Orders : Share[o] > 0 =>
    /\ Earned(o) <=> payments[o] \in Captured
    /\ TakenBack(o) <=> payments[o] \in Reversing

(* Once every request has been answered, access is what the payments that    *)
(* stand have bought.  A subscription is ACTIVE only on a payment of its     *)
(* plan that stands as SUCCEEDED, and a ticket is held only on one of its    *)
(* own (webhook.ts:19, 452-471); and a payment that stands buys access,      *)
(* after any declines, expiries and cancellations, whatever their order,     *)
(* unless a payment of the same plan or ticket has been returned.          *)
PaymentsOf(plan) ==
  {o \in Orders : SubOf[o] # None /\ PlanOf[SubOf[o]] = plan /\ payments[o] = "SUCCEEDED"}

(* Payments of a plan of which nothing has been taken back: a return ends    *)
(* the running row together with whatever was folded into it.              *)
Undisturbed(plan) ==
  \A o \in Orders :
    SubOf[o] # None /\ PlanOf[SubOf[o]] = plan => payments[o] \notin Reversing

(* The same of a ticket: a return revokes the buyer's purchase, whichever    *)
(* payment it was granted on (prisma-port.ts:409-417).                     *)
UndisturbedTicket(t) == \A o \in Orders : TicketOf[o] = t => payments[o] \notin Reversing

AccessMatchesPayments ==
  AllIdle =>
    /\ \A s \in Subs : subs[s].status = "ACTIVE" => PaymentsOf(PlanOf[s]) # {}
    /\ \A s \in Subs : Undisturbed(PlanOf[s]) /\ PaymentsOf(PlanOf[s]) # {} =>
         \E running \in Subs : PlanOf[running] = PlanOf[s] /\ subs[running].status = "ACTIVE"
    /\ \A t \in Tickets : purchases[t].payment # None /\ ~purchases[t].revoked =>
         payments[purchases[t].payment] = "SUCCEEDED"
    /\ \A o \in Orders : TicketOf[o] # None /\ payments[o] = "SUCCEEDED" =>
         /\ purchases[TicketOf[o]].payment # None
         /\ UndisturbedTicket(TicketOf[o]) => ~purchases[TicketOf[o]].revoked

(* "Set when the underlying payment was refunded or disputed"                *)
(* (schema.prisma:901).                                                    *)
RevokedWithItsPayment ==
  AllIdle => \A t \in Tickets :
    purchases[t].revoked => payments[purchases[t].payment] \in Reversing

(* Payments for one plan buy one period each, no more and no less: a second  *)
(* one is folded into the running row (prisma-port.ts:151-161).             *)
PaidTimeExact ==
  AllIdle => \A s \in Subs :
    subs[s].status = "ACTIVE" /\ Undisturbed(PlanOf[s]) =>
      LET paid == Period * Cardinality(PaymentsOf(PlanOf[s]))
      IN  paid <= subs[s].end /\ subs[s].end <= now + paid

(* An unwanted renewal is reported, and so refunded, at most once per order *)
(* (webhook.ts:266-270), also when its deliveries overlap.                 *)
UnwantedReportedOnce ==
  \A o \in Orders :
    Cardinality({r \in reports : r.id.order = o /\ r.verdict = "RENEWAL_UNWANTED"}) <= 1
-----------------------------------------------------------------------------
(* Fairness: a request that was let in runs to its end unless it crashes,   *)
(* and the gateway repeats a callback until it is answered, so a delivery   *)
(* cannot be turned away for ever while handlers come free.                *)
Arrives(d) == d \in sent /\ \E h \in Handlers : ReceiveDelivery(h, d)

TrueCallbacks ==
  [ order : Orders \ Foreign, status : Reported,
    attempt : UNION {0..(Declines[o] + Repeats[o]) : o \in Orders},
    via : {"callback"}, signed : {TRUE}, amount : {"match"} ]

FairSpec ==
  /\ Spec
  /\ \A h \in Handlers : WF_vars(HandlerStep(h))
  /\ \A d \in TrueCallbacks : SF_vars(Arrives(d))

(* Money the gateway took is eventually settled: its payment stands as      *)
(* captured, the analyst is credited and the buyer was let in.             *)
Settled(o) ==
  /\ payments[o] \in Captured
  /\ Share[o] > 0 => Earned(o)
  /\ IF SubOf[o] # None THEN subs[SubOf[o]].status # "PENDING"
                        ELSE purchases[TicketOf[o]].payment # None

ApprovedIsSettled == \A o \in Orders : Paid(o) ~> Settled(o)

(* "A genuine server-side failure IS worth retrying, so signal 500 here"     *)
(* (route.ts:112): what a failed request has begun to apply, its retry or    *)
(* the daily sweep brings to an end.  Payments captured so late that the     *)
(* bounded clock leaves the sweep no day are left out.                     *)
CapturedIsSettled ==
  \A o \in Orders : payments[o] = "SUCCEEDED" /\ now < MaxTime ~> Settled(o)
=============================================================================
