----------------------- MODULE PaymentWebhook_proofs -----------------------
(***************************************************************************)
(* Theorems about PaymentWebhook for every set of orders, subscriptions and *)
(* handlers, and every number of declines, crashes and days.               *)
(***************************************************************************)
EXTENDS PaymentProperties, FiniteSetTheorems, SumTheorems, TLAPS

(* A delivery in hand names an order, and the row it is recorded under is   *)
(* an event id.                                                            *)
LEMMA DeliveryFields ==
  ASSUME NEW d \in Delivery
  PROVE  /\ d.order \in Orders
         /\ d.status \in ReportedStatuses
         /\ ClaimedId(d) \in EventId
  BY DEF Delivery, EventId, ClaimedId

(* Each update of a subscription row yields a subscription row.            *)
LEMMA RowFlags ==
  ASSUME NEW r \in SubscriptionRow
  PROVE  /\ [r EXCEPT !.status = "CANCELED", !.canceledBy = "PAYMENT"] \in SubscriptionRow
         /\ [r EXCEPT !.status = "CANCELED", !.canceledBy = "SYSTEM"] \in SubscriptionRow
         /\ [r EXCEPT !.calendar = FALSE, !.card = FALSE] \in SubscriptionRow
         /\ [r EXCEPT !.card = TRUE] \in SubscriptionRow
  BY DEF SubscriptionRow, SubscriptionRowStates, SubscriptionStatuses, Cancelers

LEMMA RowPeriods ==
  ASSUME NEW r \in SubscriptionRow, NEW n \in Nat
  PROVE  /\ [r EXCEPT !.end = n, !.cancelAtEnd = FALSE] \in SubscriptionRow
         /\ [r EXCEPT !.status = "ACTIVE", !.end = n, !.canceledBy = "none",
                      !.cancelAtEnd = FALSE] \in SubscriptionRow
         /\ [r EXCEPT !.status = "ACTIVE", !.end = n, !.calendar = TRUE] \in SubscriptionRow
  BY DEF SubscriptionRow, SubscriptionRowStates, SubscriptionStatuses, Cancelers

(* The statements on a subscription row keep its type.                     *)
LEMMA SubscriptionStatements ==
  ASSUME StoreTypeOK, NEW s
  PROVE  /\ OpenSubscription(s) => subs' \in [Subs -> SubscriptionRow]
         /\ \A r : \A base \in Nat : FoldSubscription(s, r, base) => subs' \in [Subs -> SubscriptionRow]
         /\ DeactivateSubscription(s) => subs' \in [Subs -> SubscriptionRow]
         /\ ClosePendingSubscription(s) => subs' \in [Subs -> SubscriptionRow]
         /\ SaveCardToken(s) => subs' \in [Subs -> SubscriptionRow]
         /\ EndRenewalCalendar(s) => subs' \in [Subs -> SubscriptionRow]
         /\ RenewSubscription(s) => subs' \in [Subs -> SubscriptionRow]
<1>0. subs \in [Subs -> SubscriptionRow]
  BY DEF StoreTypeOK
<1>8. now + Period \in Nat
  BY AttributeAssumption DEF StoreTypeOK
<1>1. OpenSubscription(s) => subs' \in [Subs -> SubscriptionRow]
  <2>1. \A r \in SubscriptionRow :
          [r EXCEPT !.status = "ACTIVE", !.end = now + Period, !.canceledBy = "none",
                    !.cancelAtEnd = FALSE] \in SubscriptionRow
    BY <1>8, RowPeriods
  <2> QED BY <1>0, <2>1 DEF OpenSubscription
<1>2. ASSUME NEW r, NEW base \in Nat, FoldSubscription(s, r, base)
      PROVE  subs' \in [Subs -> SubscriptionRow]
  <2> DEFINE folded == [subs EXCEPT ![r] = [@ EXCEPT !.end = Later(base, now) + Period,
                                                     !.cancelAtEnd = FALSE]]
  <2>1. Later(base, now) + Period \in Nat
    BY AttributeAssumption DEF Later, StoreTypeOK
  <2>2. \A x \in SubscriptionRow :
          [x EXCEPT !.end = Later(base, now) + Period, !.cancelAtEnd = FALSE]
             \in SubscriptionRow
    BY <2>1, RowPeriods
  <2>3. folded \in [Subs -> SubscriptionRow]
    BY <1>0, <2>2
  <2>4. subs' = [folded EXCEPT ![s] = [@ EXCEPT !.status = "CANCELED",
                                               !.canceledBy = "SYSTEM"]]
    BY <1>2 DEF FoldSubscription
  <2> HIDE DEF folded
  <2> QED BY <2>3, <2>4, RowFlags
<1>3. DeactivateSubscription(s) => subs' \in [Subs -> SubscriptionRow]
  BY <1>0, RowFlags DEF DeactivateSubscription, CloseSubscription
<1>4. ClosePendingSubscription(s) => subs' \in [Subs -> SubscriptionRow]
  BY <1>0, RowFlags DEF ClosePendingSubscription, CloseSubscription
<1>5. SaveCardToken(s) => subs' \in [Subs -> SubscriptionRow]
  BY <1>0, RowFlags DEF SaveCardToken
<1>6. EndRenewalCalendar(s) => subs' \in [Subs -> SubscriptionRow]
  BY <1>0, RowFlags DEF EndRenewalCalendar
<1>7. RenewSubscription(s) => subs' \in [Subs -> SubscriptionRow]
  <2>1. \A r \in SubscriptionRow :
          [r EXCEPT !.status = "ACTIVE", !.end = now + Period, !.calendar = TRUE]
             \in SubscriptionRow
    BY <1>8, RowPeriods
  <2> QED BY <1>0, <2>1 DEF RenewSubscription
<1> QED BY <1>1, <1>2, <1>3, <1>4, <1>5, <1>6, <1>7

(* A movement of earnings keeps the types of the ledger and the totals.    *)
LEMMA EarningsStatements ==
  ASSUME StoreTypeOK, NEW o \in Orders
  PROVE  /\ CreditAnalystEarning(o) =>
              ledger' \subseteq LedgerRow /\ earnings' \in [Analysts -> Int]
         /\ ReverseAnalystEarning(o) =>
              ledger' \subseteq LedgerRow /\ earnings' \in [Analysts -> Int]
<1>1. /\ Row(o, "ANALYST_EARNING") \in LedgerRow
      /\ Row(o, "ANALYST_EARNING_REVERSAL") \in LedgerRow
  BY DEF Row, LedgerRow, Kinds
<1> QED BY <1>1, AttributeAssumption DEF StoreTypeOK, CreditAnalystEarning, ReverseAnalystEarning,
                    ApplyEarningsMovement

(* Revoking a ticket keeps the type of its row.                            *)
LEMMA RevokeStatement ==
  ASSUME StoreTypeOK, NEW o, RevokeTicketPurchase(o)
  PROVE  purchases' \in [Tickets -> PurchaseRow]
<1>1. ASSUME NEW t \in Tickets
      PROVE  [purchases[t] EXCEPT !.revoked = TRUE] \in PurchaseRow
  <2>1. purchases[t] \in PurchaseRow
    BY DEF StoreTypeOK
  <2> QED BY <2>1 DEF PurchaseRow
<1>2. CASE purchases' = purchases
  BY <1>2 DEF StoreTypeOK
<1>3. CASE purchases' = [purchases EXCEPT ![TicketOf[o]].revoked = TRUE]
  <2>1. \A t \in Tickets : purchases'[t] \in PurchaseRow
    BY <1>1, <1>3 DEF StoreTypeOK
  <2> QED BY <1>3, <2>1 DEF StoreTypeOK
<1> QED BY <1>2, <1>3 DEF RevokeTicketPurchase

(* The edges stay within the vocabulary.                                   *)
LEMMA AllowedTargets ==
  ASSUME NEW from \in PaymentStatuses, NEW to, CanTransition(from, to)
  PROVE  to \in PaymentStatuses
  BY DEF CanTransition, AllowedTransitions, PaymentStatuses

(* What a handler that gives up or finishes leaves behind is well typed.   *)
LEMMA ForgetType ==
  ASSUME HandlerTypeOK, NEW h \in Handlers, Forget(h)
  PROVE  HandlerTypeOK'
  BY DEF HandlerTypeOK, Forget, Goto, Steps, Verdicts, FoldRead, NoFold,
         PaymentRowStates

(* A step of the gateway keeps the types.                                  *)
LEMMA GatewayType ==
  ASSUME TypeOK, GatewayStep
  PROVE  TypeOK'
<1> USE DEF GatewayStep, TypeOK
<1>1. StoreTypeOK' /\ AuditTypeOK' /\ HandlerTypeOK'
  BY DEF dbVars, auditVars, handlerVars, StoreTypeOK, AuditTypeOK, HandlerTypeOK
<1>2. PICK o \in Orders :
        \/ GatewayProcesses(o) \/ GatewayDeclines(o) \/ GatewayApproves(o)
        \/ GatewayRepeats(o) \/ GatewayCloses(o) \/ GatewayReturns(o)
        \/ GatewayRenews(o)
  OBVIOUS
<1>3. ASSUME NEW st \in Reported, NEW n \in Nat PROVE Attempt(o, st, n) \in Delivery
  BY <1>3, WebhookAssumption DEF Attempt, Delivery, ReportedStatuses
<1>4. ASSUME NEW st, Report(o, st) PROVE sent' \subseteq Delivery
  BY <1>3, <1>4 DEF Report, Callback, GatewayTypeOK
<1>5. GatewayRepeats(o) => sent' \subseteq Delivery
  BY <1>3 DEF GatewayRepeats, GatewayTypeOK
<1>6. GatewayTypeOK'
  BY <1>2, <1>4, <1>5
     DEF GatewayProcesses, GatewayDeclines, GatewayApproves, GatewayRepeats,
         GatewayCloses, GatewayReturns, GatewayRenews, GatewayTypeOK, GatewayStates
<1> QED BY <1>1, <1>6

(* A step of a handler keeps the types.                                    *)
LEMMA HandlerType ==
  ASSUME TypeOK, NEW h \in Handlers, Holds(h), HandlerStep(h)
  PROVE  TypeOK'
<1> USE DEF TypeOK
<1> DEFINE d == msg[h]
<1>0. pc[h] # "idle"
  BY DEF HandlerStep, Decide, Transition, SaveCard, ReadRunning, Open, Fold,
         Deactivate, ClosePending, Grant, Revoke, Credit, Reverse, EndCalendar,
         RecordRenewal, Renew, Mark
<1>1. d \in Delivery /\ d.order \in Orders /\ ClaimedId(d) \in EventId
  BY <1>0, DeliveryFields DEF HandlerTypeOK
<1>2. payments[d.order] \in PaymentRowStates
  BY <1>1 DEF StoreTypeOK
<1>3. CASE Decide(h)
  <2>1. StoreTypeOK' /\ AuditTypeOK' /\ GatewayTypeOK'
    BY <1>3 DEF Decide, dbVars, auditVars, gatewayVars, StoreTypeOK,
                AuditTypeOK, GatewayTypeOK
  <2>2. HandlerTypeOK'
    BY <1>1, <1>2, <1>3 DEF Decide, DecidePayment, DecideRenewal, Reject,
       Accept, Goto, HandlerTypeOK, Steps, Verdicts
  <2> QED BY <2>1, <2>2
<1>4. CASE Transition(h)
  <2>1. AuditTypeOK' /\ GatewayTypeOK'
    BY <1>4 DEF Transition, auditVars, gatewayVars, AuditTypeOK, GatewayTypeOK
  <2>2. HandlerTypeOK'
    BY <1>1, <1>4 DEF Transition, Goto, HandlerTypeOK, Steps, Verdicts,
                      AfterTransition
  <2>3. d.status \in PaymentStatuses
    <3>1. seen[h] \in PaymentStatuses /\ CanTransition(seen[h], d.status)
      BY <1>4 DEF Holds, Transition, HandlerTypeOK, PaymentRowStates
    <3> QED BY <3>1, AllowedTargets
  <2>4. StoreTypeOK'
    BY <1>1, <1>4, <2>3 DEF Transition, TransitionPayment, StoreTypeOK, PaymentRowStates
  <2> QED BY <2>1, <2>2, <2>4
<1>5. CASE SaveCard(h)
  <2>1. AuditTypeOK' /\ GatewayTypeOK'
    BY <1>5 DEF SaveCard, auditVars, gatewayVars, AuditTypeOK, GatewayTypeOK
  <2>2. HandlerTypeOK'
    BY <1>1, <1>5 DEF SaveCard, Goto, HandlerTypeOK, Steps, Verdicts
  <2>3. StoreTypeOK'
    BY <1>5, SubscriptionStatements DEF SaveCard, StoreTypeOK
  <2> QED BY <2>1, <2>2, <2>3
<1>6. CASE Deactivate(h)
  <2>1. AuditTypeOK' /\ GatewayTypeOK'
    BY <1>6 DEF Deactivate, auditVars, gatewayVars, AuditTypeOK, GatewayTypeOK
  <2>2. HandlerTypeOK'
    BY <1>1, <1>6 DEF Deactivate, Goto, HandlerTypeOK, Steps, Verdicts
  <2>3. StoreTypeOK'
    BY <1>6, SubscriptionStatements DEF Deactivate, StoreTypeOK
  <2> QED BY <2>1, <2>2, <2>3
<1>7. CASE ClosePending(h)
  <2>1. AuditTypeOK' /\ GatewayTypeOK'
    BY <1>7 DEF ClosePending, auditVars, gatewayVars, AuditTypeOK, GatewayTypeOK
  <2>2. HandlerTypeOK'
    BY <1>1, <1>7 DEF ClosePending, Goto, HandlerTypeOK, Steps, Verdicts
  <2>3. StoreTypeOK'
    BY <1>7, SubscriptionStatements DEF ClosePending, StoreTypeOK
  <2> QED BY <2>1, <2>2, <2>3
<1>8. CASE EndCalendar(h)
  <2>1. AuditTypeOK' /\ GatewayTypeOK'
    BY <1>8 DEF EndCalendar, auditVars, gatewayVars, AuditTypeOK, GatewayTypeOK
  <2>2. HandlerTypeOK'
    BY <1>1, <1>8 DEF EndCalendar, Goto, HandlerTypeOK, Steps, Verdicts
  <2>3. StoreTypeOK'
    BY <1>8, SubscriptionStatements DEF EndCalendar, StoreTypeOK
  <2> QED BY <2>1, <2>2, <2>3
<1>9. CASE Fold(h)
  <2>1. AuditTypeOK' /\ GatewayTypeOK'
    BY <1>9 DEF Fold, auditVars, gatewayVars, AuditTypeOK, GatewayTypeOK
  <2>2. HandlerTypeOK'
    BY <1>1, <1>9 DEF Fold, Goto, HandlerTypeOK, Steps, Verdicts, FoldRead, NoFold
  <2>3. StoreTypeOK'
    BY <1>9, SubscriptionStatements DEF Fold, StoreTypeOK, HandlerTypeOK, FoldRead
  <2> QED BY <2>1, <2>2, <2>3
<1>10. CASE ReadRunning(h)
  <2>1. AuditTypeOK' /\ GatewayTypeOK'
    BY <1>10 DEF ReadRunning, auditVars, gatewayVars, AuditTypeOK, GatewayTypeOK
  <2>2. \A r \in RunningBeside(sub(h)) : [running |-> r, base |-> subs[r].end] \in FoldRead
    <3>1. \A r \in RunningBeside(sub(h)) : r \in Subs /\ subs[r] \in SubscriptionRow
      BY DEF RunningBeside, StoreTypeOK
    <3> QED BY <3>1 DEF SubscriptionRow, FoldRead
  <2>3. HandlerTypeOK'
    BY <1>10, <2>2 DEF ReadRunning, Goto, HandlerTypeOK, Steps
  <2>4. StoreTypeOK'
    BY <1>10 DEF ReadRunning, dbVars, StoreTypeOK
  <2> QED BY <2>1, <2>3, <2>4
<1>11. CASE Grant(h)
  <2>1. AuditTypeOK' /\ GatewayTypeOK'
    BY <1>11 DEF Grant, auditVars, gatewayVars, AuditTypeOK, GatewayTypeOK
  <2>2. HandlerTypeOK'
    BY <1>1, <1>11 DEF Grant, Goto, HandlerTypeOK, Steps, Verdicts
  <2>3. StoreTypeOK'
    BY <1>1, <1>11 DEF Grant, GrantTicketPurchase, order, StoreTypeOK, PurchaseRow
  <2> QED BY <2>1, <2>2, <2>3
<1>12. CASE Revoke(h)
  <2>1. AuditTypeOK' /\ GatewayTypeOK'
    BY <1>12 DEF Revoke, auditVars, gatewayVars, AuditTypeOK, GatewayTypeOK
  <2>2. HandlerTypeOK'
    BY <1>1, <1>12 DEF Revoke, Goto, HandlerTypeOK, Steps, Verdicts
  <2>3. StoreTypeOK'
    BY <1>12, RevokeStatement DEF Revoke, StoreTypeOK
  <2> QED BY <2>1, <2>2, <2>3
<1>13. CASE Credit(h)
  <2>1. AuditTypeOK' /\ GatewayTypeOK'
    BY <1>13 DEF Credit, auditVars, gatewayVars, AuditTypeOK, GatewayTypeOK
  <2>2. HandlerTypeOK'
    BY <1>1, <1>13 DEF Credit, Goto, HandlerTypeOK, Steps, Verdicts
  <2>3. StoreTypeOK'
    BY <1>1, <1>13, EarningsStatements DEF Credit, order, StoreTypeOK
  <2> QED BY <2>1, <2>2, <2>3
<1>14. CASE Reverse(h)
  <2>1. AuditTypeOK' /\ GatewayTypeOK'
    BY <1>14 DEF Reverse, auditVars, gatewayVars, AuditTypeOK, GatewayTypeOK
  <2>2. HandlerTypeOK'
    BY <1>1, <1>14 DEF Reverse, Goto, HandlerTypeOK, Steps, Verdicts
  <2>3. StoreTypeOK'
    BY <1>1, <1>14, EarningsStatements DEF Reverse, order, StoreTypeOK
  <2> QED BY <2>1, <2>2, <2>3
<1>15. CASE RecordRenewal(h)
  <2>1. AuditTypeOK' /\ GatewayTypeOK'
    BY <1>15 DEF RecordRenewal, auditVars, gatewayVars, AuditTypeOK, GatewayTypeOK
  <2>2. HandlerTypeOK'
    BY <1>1, <1>15 DEF RecordRenewal, Goto, HandlerTypeOK, Steps, Verdicts
  <2>3. StoreTypeOK'
    BY <1>1, <1>15 DEF RecordRenewal, RecordRenewalPayment, StoreTypeOK, PaymentRowStates, PaymentStatuses
  <2> QED BY <2>1, <2>2, <2>3
<1>16. CASE Open(h)
  <2>1. GatewayTypeOK'
    BY <1>16 DEF Open, gatewayVars, GatewayTypeOK
  <2>2. CASE Throw(h)
    BY <1>1, <1>16, <2>1, <2>2, ForgetType DEF Open, Throw, dbVars, StoreTypeOK, AuditTypeOK
  <2>3. CASE ~Throw(h)
    <3>1. AuditTypeOK' /\ HandlerTypeOK'
      BY <1>1, <1>16, <2>3 DEF Open, auditVars, Goto, AuditTypeOK, HandlerTypeOK,
         Steps, Verdicts
    <3>2. StoreTypeOK'
      BY <1>16, <2>3, SubscriptionStatements DEF Open, StoreTypeOK
    <3> QED BY <2>1, <3>1, <3>2
  <2> QED BY <2>2, <2>3
<1>17. CASE Renew(h)
  <2>1. GatewayTypeOK'
    BY <1>17 DEF Renew, gatewayVars, GatewayTypeOK
  <2>2. CASE Throw(h)
    BY <1>1, <1>17, <2>1, <2>2, ForgetType DEF Renew, Throw, dbVars, StoreTypeOK, AuditTypeOK
  <2>3. CASE ~Throw(h)
    <3>1. AuditTypeOK' /\ HandlerTypeOK'
      BY <1>1, <1>17, <2>3 DEF Renew, auditVars, Goto, AuditTypeOK, HandlerTypeOK,
         Steps, Verdicts
    <3>2. StoreTypeOK'
      BY <1>17, <2>3, SubscriptionStatements DEF Renew, StoreTypeOK
    <3> QED BY <2>1, <3>1, <3>2
  <2> QED BY <2>2, <2>3
<1>18. CASE Mark(h)
  <2>1. reports' \subseteq [id : EventId, verdict : ActedOn]
    BY <1>1, <1>18 DEF Mark, AuditTypeOK
  <2> QED BY <1>18, <2>1, ForgetType DEF Mark, dbVars, gatewayVars, StoreTypeOK,
            GatewayTypeOK, AuditTypeOK
<1> QED BY <1>3, <1>4, <1>5, <1>6, <1>7, <1>8, <1>9, <1>10, <1>11, <1>12, <1>13, <1>14, <1>15, <1>16, <1>17, <1>18 DEF HandlerStep

(* The types of a step.                                                    *)
LEMMA StepType ==
  ASSUME TypeOK, Control, [Next]_vars
  PROVE  TypeOK'
<1>1. CASE GatewayStep
  BY <1>1, GatewayType
<1>2. ASSUME NEW h \in Handlers, NEW d \in sent, ReceiveDelivery(h, d)
      PROVE  TypeOK'
  <2>1. d \in Delivery /\ ClaimedId(d) \in EventId
    BY DeliveryFields DEF TypeOK, GatewayTypeOK
  <2> QED
    BY <1>2, <2>1 DEF ReceiveDelivery, Goto, TypeOK, StoreTypeOK, GatewayTypeOK,
       AuditTypeOK, HandlerTypeOK, Steps, dbVars, gatewayVars
<1>3. ASSUME NEW h \in Handlers, HandlerStep(h) PROVE TypeOK'
  BY <1>3, HandlerType DEF Control
<1>4. ASSUME NEW h \in Handlers, Crash(h) PROVE TypeOK'
  BY <1>4, ForgetType DEF Crash, dbVars, gatewayVars, TypeOK, StoreTypeOK,
     GatewayTypeOK, AuditTypeOK
<1>5. CASE Tick
  BY <1>5 DEF Tick, dbVars, gatewayVars, auditVars, handlerVars, TypeOK,
     StoreTypeOK, GatewayTypeOK, AuditTypeOK, HandlerTypeOK
<1>6. CASE UNCHANGED vars
  BY <1>6 DEF vars, dbVars, gatewayVars, auditVars, handlerVars, TypeOK,
     StoreTypeOK, GatewayTypeOK, AuditTypeOK, HandlerTypeOK
<1> QED
  BY <1>1, <1>2, <1>3, <1>4, <1>5, <1>6 DEF Next
-----------------------------------------------------------------------------
(* What the gateway has taken stays taken, and a post once made stays.     *)
LEMMA PaidStays ==
  ASSUME TypeOK, [Next]_vars
  PROVE  /\ sent \subseteq sent'
         /\ \A o \in Orders : Paid(o) => Paid(o)'
<1>1. CASE GatewayStep
  <2>1. PICK o \in Orders :
          \/ GatewayProcesses(o) \/ GatewayDeclines(o) \/ GatewayApproves(o)
          \/ GatewayRepeats(o) \/ GatewayCloses(o) \/ GatewayReturns(o)
          \/ GatewayRenews(o)
    BY <1>1 DEF GatewayStep
  <2> QED
    BY <2>1 DEF GatewayProcesses, GatewayDeclines, GatewayApproves, GatewayRepeats,
       GatewayCloses, GatewayReturns, GatewayRenews, Report, Paid, TypeOK, GatewayTypeOK
<1>2. CASE UNCHANGED gatewayVars
  BY <1>2 DEF gatewayVars, Paid
<1>3. ASSUME NEW h \in Handlers, NEW d \in sent, ReceiveDelivery(h, d)
      PROVE  UNCHANGED gatewayVars
  BY <1>3 DEF ReceiveDelivery
<1>4. ASSUME NEW h \in Handlers, HandlerStep(h) PROVE UNCHANGED gatewayVars
  BY <1>4 DEF HandlerStep, Decide, Transition, SaveCard, ReadRunning, Open, Fold,
     Deactivate, ClosePending, Grant, Revoke, Credit, Reverse, EndCalendar,
     RecordRenewal, Renew, Mark
<1>5. ASSUME NEW h \in Handlers, Crash(h) PROVE UNCHANGED gatewayVars
  BY <1>5 DEF Crash
<1>6. Tick \/ UNCHANGED vars => UNCHANGED gatewayVars
  BY DEF Tick, vars
<1> QED BY <1>1, <1>2, <1>3, <1>4, <1>5, <1>6 DEF Next

(* What the gateway signs about our orders stays true.                     *)
LEMMA SignedStays ==
  ASSUME TypeOK, SignedIsTrue, [Next]_vars
  PROVE  SignedIsTrue'
<1>0. \A d : AmountRefused(d)' <=> AmountRefused(d)
  BY DEF AmountRefused
<1>1. CASE sent' = sent
  BY <1>0, <1>1, PaidStays DEF SignedIsTrue, TypeOK, GatewayTypeOK, Delivery
<1>2. CASE GatewayStep
  <2>1. PICK o \in Orders :
          \/ GatewayProcesses(o) \/ GatewayDeclines(o) \/ GatewayApproves(o)
          \/ GatewayRepeats(o) \/ GatewayCloses(o) \/ GatewayReturns(o)
          \/ GatewayRenews(o)
    BY <1>2 DEF GatewayStep
  <2>2. \A d \in sent' \ sent : d.order = o /\ (d.status \in Captured => Paid(o)')
    BY <2>1 DEF GatewayProcesses, GatewayDeclines, GatewayApproves, GatewayRepeats,
       GatewayCloses, GatewayReturns, GatewayRenews, Report, Callback, Attempt,
       Captured, Reversing, Paid, TypeOK, GatewayTypeOK
  <2> QED
    BY <1>0, <2>2, PaidStays DEF SignedIsTrue, TypeOK, GatewayTypeOK, Delivery
<1>3. ~GatewayStep => sent' = sent
  BY DEF Next, ReceiveDelivery, HandlerStep, Decide, Transition, SaveCard,
     ReadRunning, Open, Fold, Deactivate, ClosePending, Grant, Revoke, Credit,
     Reverse, EndCalendar, RecordRenewal, Renew, Mark, Crash, Tick, vars, gatewayVars
<1> QED BY <1>1, <1>2, <1>3

(* An order that is not ours never gets a row.                             *)
LEMMA ForeignStays ==
  ASSUME TypeOK, Control, [Next]_vars
  PROVE  ForeignUnknown'
<1>1. CASE payments' = payments
  BY <1>1 DEF Control, ForeignUnknown
<1>2. ASSUME NEW h \in Handlers, Transition(h) PROVE ForeignUnknown'
  <2>1. seen[h] # "NONE"
    BY <1>2 DEF Control, Holds, Transition
  <2>2. \A o \in Orders : payments[o] = "NONE" => payments'[o] = "NONE"
    BY <1>2, <2>1 DEF Transition, TransitionPayment, TypeOK, StoreTypeOK
  <2> QED BY <2>2, WebhookAssumption DEF Control, ForeignUnknown
<1>3. ASSUME NEW h \in Handlers, RecordRenewal(h) PROVE ForeignUnknown'
  <2>1. IsRenewal(order(h))
    BY <1>3 DEF Control, Holds, RecordRenewal, RenewalSteps
  <2>2. \A o \in Orders : ~IsRenewal(o) => payments'[o] = payments[o]
    BY <1>3, <2>1 DEF RecordRenewal, RecordRenewalPayment, TypeOK, StoreTypeOK, IsRenewal
  <2> QED BY <2>2, WebhookAssumption DEF Control, ForeignUnknown, IsRenewal
<1>4. ASSUME NEW h \in Handlers, HandlerStep(h), ~Transition(h), ~RecordRenewal(h)
      PROVE  payments' = payments
  BY <1>4 DEF HandlerStep, Decide, SaveCard, ReadRunning, Open, Fold, Deactivate,
     ClosePending, Grant, Revoke, Credit, Reverse, EndCalendar, Renew, Mark, Throw, dbVars
<1>5. GatewayStep \/ Tick \/ UNCHANGED vars => payments' = payments
  BY DEF GatewayStep, Tick, vars, dbVars
<1>6. ASSUME NEW h \in Handlers,
             Crash(h) \/ \E d \in sent : ReceiveDelivery(h, d)
      PROVE  payments' = payments
  BY <1>6 DEF Crash, ReceiveDelivery, dbVars
<1> QED BY <1>1, <1>2, <1>3, <1>4, <1>5, <1>6 DEF Next

(* What a handler holds survives the steps of everybody else.              *)
LEMMA OthersHold ==
  ASSUME TypeOK, [Next]_vars, NEW g \in Handlers, Holds(g),
         pc'[g] = pc[g], msg'[g] = msg[g], seen'[g] = seen[g], verdict'[g] = verdict[g]
  PROVE  Holds(g)'
<1>1. pc[g] # "idle" => msg[g] \in Delivery /\ msg[g].order \in Orders
  BY DeliveryFields DEF TypeOK, HandlerTypeOK
<1>2. pc[g] # "idle" => (Paid(order(g)) => Paid(order(g))')
  BY <1>1, PaidStays DEF order, Paid
<1>3. pc[g] # "idle" => msg[g] \in sent'
  BY PaidStays DEF Holds
<1> QED
  BY <1>2, <1>3 DEF Holds, order, sub, IsRenewal, PaidSteps, SubscriptionSteps,
     OpeningSteps, RenewalSteps, CanTransition

(* A handler that is done holds nothing.                                   *)
LEMMA IdleHolds ==
  ASSUME NEW h, pc'[h] = "idle"
  PROVE  Holds(h)'
  BY DEF Holds, PaidSteps, SubscriptionSteps, OpeningSteps, RenewalSteps

(* Each step of a handler leaves it holding what its next step needs.      *)
LEMMA HandlerHolds ==
  ASSUME TypeOK, Control, NEW h \in Handlers, HandlerStep(h)
  PROVE  Holds(h)'
<1> DEFINE d == msg[h]
<1> USE DEF HandlerTypeOK, PaidSteps, SubscriptionSteps, RenewalSteps, OpeningSteps
<1>0. Holds(h) /\ HandlerTypeOK
  BY DEF Control, TypeOK
<1>1. d.order = order(h) /\ SubOf[d.order] = sub(h)
  BY DEF order, sub
<1>2. ASSUME gw' = gw, sent' = sent, msg'[h] = d,
             pc'[h] \in Steps \ {"idle", "transition"}, pc[h] # "idle",
             pc'[h] \in PaidSteps => Paid(order(h)),
             pc'[h] \in SubscriptionSteps => sub(h) # None,
             pc'[h] \in RenewalSteps => IsRenewal(order(h)),
             pc'[h] \in OpeningSteps => verdict'[h] = "APPLIED",
             pc'[h] = "saveCard" => verdict'[h] \in {"APPLIED", "RENEWAL_APPLIED"},
             pc'[h] = "credit" /\ verdict'[h] # "APPLIED" => IsRenewal(order(h))
      PROVE  Holds(h)'
  BY <1>0, <1>2 DEF Holds, order, sub, Paid, IsRenewal
<1>3. CASE Decide(h)
  <2>1. d \in sent /\ d \in Delivery /\ pc[h] = "decide"
    BY <1>0, <1>3 DEF Holds, Decide
  <2>2. gw' = gw /\ sent' = sent /\ msg' = msg
    BY <1>3 DEF Decide, gatewayVars
  <2>3. CASE /\ pc'[h] = "transition" /\ seen'[h] = payments[d.order] /\ Readable(d)
             /\ Found(d.order) /\ ~AmountRefused(d)
             /\ CanTransition(payments[d.order], d.status)
    <3>1. d.status \in Captured => Paid(d.order)
      BY <2>1, <2>3 DEF Control, SignedIsTrue, ForeignUnknown, Readable, Found, Delivery
    <3> QED
      BY <2>1, <2>2, <2>3, <3>1 DEF Holds, order, Paid, Found, CanTransition
  <2>4. CASE /\ pc'[h] = "recordRenewal" /\ FromCalendar(d) /\ d.status = "SUCCEEDED"
             /\ ~AmountRefused(d)
    <3>1. d.order \notin Foreign
      BY <2>4, WebhookAssumption DEF FromCalendar, IsRenewal
    <3>2. Paid(d.order)
      BY <2>1, <2>4, <3>1 DEF Control, SignedIsTrue, FromCalendar, Readable, Captured
    <3> QED BY <1>1, <1>2, <2>1, <2>2, <2>4, <3>2 DEF FromCalendar, Steps
  <2>5. CASE pc'[h] = "endCalendar" /\ FromCalendar(d)
    BY <1>1, <1>2, <2>1, <2>2, <2>5 DEF FromCalendar, Steps
  <2>6. CASE pc'[h] = "mark"
    BY <1>1, <1>2, <2>1, <2>2, <2>6 DEF Steps
  <2> QED
    BY <1>0, <1>3, <2>3, <2>4, <2>5, <2>6
       DEF Decide, DecidePayment, DecideRenewal, Reject, Accept, Goto
<1>4. CASE Transition(h)
  <2>1. AfterTransition(order(h), d.status) \subseteq
          IF d.status = "SUCCEEDED"
          THEN IF sub(h) # None THEN {"saveCard", "activate"} ELSE {"grant"}
          ELSE IF d.status \in Reversing
          THEN IF sub(h) # None THEN {"deactivate"} ELSE {"revoke"}
          ELSE IF sub(h) # None THEN {"closePending", "mark"} ELSE {"mark"}
    BY <1>1 DEF AfterTransition
  <2>2. d.status \in Captured => Paid(order(h))
    BY <1>0, <1>4 DEF Holds, Transition
  <2>3. pc'[h] \in AfterTransition(order(h), d.status)
    BY <1>0, <1>4 DEF Transition, Goto
  <2>4. gw' = gw /\ sent' = sent /\ msg' = msg /\ pc[h] # "idle" /\ verdict'[h] = "APPLIED"
    BY <1>0, <1>4 DEF Transition, gatewayVars
  <2> QED BY <1>2, <2>1, <2>2, <2>3, <2>4 DEF Steps, Captured, Reversing
<1>5. ASSUME gw' = gw, sent' = sent, msg' = msg, verdict' = verdict, pc[h] # "idle",
             pc'[h] \in {"mark", "reverse"},
             pc'[h] = "reverse" => Paid(order(h))
      PROVE  Holds(h)'
  BY <1>2, <1>5 DEF Steps
<1>6. CASE SaveCard(h) \/ ReadRunning(h) \/ Fold(h)
  <2>1. gw' = gw /\ sent' = sent /\ msg' = msg /\ verdict' = verdict /\ pc[h] # "idle"
    BY <1>6 DEF SaveCard, ReadRunning, Fold, gatewayVars
  <2>2. Paid(order(h)) /\ sub(h) # None
    BY <1>0, <1>6 DEF Holds, SaveCard, ReadRunning, Fold
  <2>3. \/ pc'[h] = "mark"
        \/ verdict[h] = "APPLIED" /\ pc'[h] \in {"activate", "credit", "open", "fold"}
    BY <1>0, <1>6 DEF Holds, SaveCard, ReadRunning, Fold, Goto
  <2> QED BY <1>2, <2>1, <2>2, <2>3 DEF Steps
<1>7. CASE Deactivate(h) \/ Revoke(h) \/ ClosePending(h) \/ Reverse(h)
  <2>1. gw' = gw /\ sent' = sent /\ msg' = msg /\ verdict' = verdict /\ pc[h] # "idle"
    BY <1>7 DEF Deactivate, Revoke, ClosePending, Reverse, gatewayVars
  <2>2. /\ pc'[h] \in {"mark", "reverse"}
        /\ pc'[h] = "reverse" => Paid(order(h))
    BY <1>0, <1>7 DEF Holds, Deactivate, Revoke, ClosePending, Reverse, Goto
  <2> QED BY <1>5, <2>1, <2>2
<1>8. CASE Grant(h) \/ Credit(h)
  <2>1. gw' = gw /\ sent' = sent /\ msg' = msg /\ verdict' = verdict /\ pc[h] # "idle"
    BY <1>8 DEF Grant, Credit, gatewayVars
  <2>2. /\ Paid(order(h))
        /\ \/ pc'[h] = "mark"
           \/ pc'[h] = "credit" /\ verdict[h] = "APPLIED"
           \/ pc'[h] = "renew" /\ IsRenewal(order(h))
    BY <1>0, <1>8 DEF Holds, Grant, Credit, Goto
  <2> QED BY <1>2, <2>1, <2>2 DEF Steps
<1>9. CASE Open(h)
  <2>1. CASE Throw(h)
    BY <1>0, <1>9, <2>1, IdleHolds DEF Throw, Forget, Goto
  <2>2. CASE ~Throw(h)
    <3>1. gw' = gw /\ sent' = sent /\ msg' = msg /\ verdict' = verdict /\ pc'[h] = "credit"
      BY <1>0, <1>9, <2>2 DEF Open, gatewayVars, Goto
    <3>2. pc[h] = "open" /\ Paid(order(h)) /\ verdict[h] = "APPLIED"
      BY <1>0, <1>9 DEF Holds, Open
    <3> QED BY <1>2, <3>1, <3>2 DEF Steps
  <2> QED BY <2>1, <2>2
<1>10. CASE EndCalendar(h) \/ RecordRenewal(h)
  <2>1. gw' = gw /\ sent' = sent /\ msg' = msg /\ pc[h] # "idle"
    BY <1>10 DEF EndCalendar, RecordRenewal, gatewayVars
  <2>2. \/ pc'[h] = "mark"
        \/ pc'[h] \in {"renew", "credit"} /\ IsRenewal(order(h)) /\ Paid(order(h))
    BY <1>0, <1>10 DEF Holds, EndCalendar, RecordRenewal, Goto
  <2> QED BY <1>2, <2>1, <2>2 DEF Steps
<1>11. CASE Renew(h)
  <2>1. CASE Throw(h)
    BY <1>0, <1>11, <2>1, IdleHolds DEF Throw, Forget, Goto
  <2>2. CASE ~Throw(h)
    <3>1. /\ gw' = gw /\ sent' = sent /\ msg' = msg
          /\ \/ pc'[h] = "mark"
             \/ pc'[h] = "saveCard" /\ verdict'[h] = "RENEWAL_APPLIED"
      BY <1>0, <1>11, <2>2 DEF Renew, gatewayVars, Goto
    <3>2. pc[h] = "renew" /\ Paid(order(h)) /\ IsRenewal(order(h))
      BY <1>0, <1>11 DEF Holds, Renew
    <3>3. sub(h) # None
      <4>1. order(h) \in Orders
        BY <1>0, <3>2, DeliveryFields DEF order
      <4> QED BY <1>1, <3>2, <4>1, RenewalAssumption DEF IsRenewal
    <3> QED BY <1>2, <3>1, <3>2, <3>3 DEF Steps
  <2> QED BY <2>1, <2>2
<1>12. CASE Mark(h)
  BY <1>0, <1>12, IdleHolds DEF Mark, Forget, Goto
<1> QED BY <1>3, <1>4, <1>6, <1>7, <1>8, <1>9, <1>10, <1>11, <1>12 DEF HandlerStep

(* The control invariant is kept by every step.                            *)
LEMMA StepControl ==
  ASSUME TypeOK, Control, [Next]_vars
  PROVE  Control'
<1>1. SignedIsTrue' /\ ForeignUnknown'
  BY SignedStays, ForeignStays DEF Control
<1>2. ASSUME NEW g \in Handlers PROVE Holds(g)'
  <2>1. Holds(g) /\ HandlerTypeOK
    BY DEF Control, TypeOK
  <2>2. CASE UNCHANGED handlerVars
    BY <2>1, <2>2, OthersHold DEF handlerVars
  <2>3. CASE GatewayStep \/ Tick \/ UNCHANGED vars
    BY <2>2, <2>3 DEF GatewayStep, Tick, vars
  <2>4. ASSUME NEW h \in Handlers, NEW d \in sent, ReceiveDelivery(h, d)
        PROVE  Holds(g)'
    <3>1. CASE g = h
      BY <2>1, <2>4, <3>1, PaidStays DEF ReceiveDelivery, Goto, HandlerTypeOK, Holds,
         PaidSteps, SubscriptionSteps, RenewalSteps, OpeningSteps
    <3>2. CASE g # h
      BY <2>1, <2>4, <3>2, OthersHold DEF ReceiveDelivery, Goto, HandlerTypeOK
    <3> QED BY <3>1, <3>2
  <2>5. ASSUME NEW h \in Handlers, HandlerStep(h) PROVE Holds(g)'
    <3>1. CASE g = h
      BY <2>5, <3>1, HandlerHolds
    <3>2. CASE g # h
      <4>1. pc'[g] = pc[g] /\ msg'[g] = msg[g] /\ seen'[g] = seen[g] /\ verdict'[g] = verdict[g]
        BY <2>1, <2>5, <3>2
           DEF HandlerStep, Decide, DecidePayment, DecideRenewal, Reject, Accept,
               Transition, SaveCard, ReadRunning, Open, Fold, Deactivate, ClosePending,
               Grant, Revoke, Credit, Reverse, EndCalendar, RecordRenewal, Renew, Mark,
               Throw, Forget, Goto, HandlerTypeOK
      <4> QED BY <2>1, <4>1, OthersHold
    <3> QED BY <3>1, <3>2
  <2>6. ASSUME NEW h \in Handlers, Crash(h) PROVE Holds(g)'
    <3>1. CASE g = h
      BY <2>1, <2>6, <3>1, IdleHolds DEF Crash, Forget, Goto, HandlerTypeOK
    <3>2. CASE g # h
      BY <2>1, <2>6, <3>2, OthersHold DEF Crash, Forget, Goto, HandlerTypeOK
    <3> QED BY <3>1, <3>2
  <2> QED BY <2>3, <2>4, <2>5, <2>6 DEF Next
<1> QED BY <1>1, <1>2 DEF Control
-----------------------------------------------------------------------------
(* The invariant everything below rests on.                                *)
LEMMA Invariant == Spec => [](TypeOK /\ Control)
<1>1. Init => TypeOK
  BY NoneAssumption, WebhookAssumption
     DEF Init, TypeOK, StoreTypeOK, GatewayTypeOK, AuditTypeOK, HandlerTypeOK,
         IsRenewal, SubscriptionRow, PurchaseRow, LedgerRow, PaymentRowStates,
         PaymentStatuses, SubscriptionRowStates, SubscriptionStatuses, Cancelers,
         GatewayStates, Steps, Verdicts, FoldRead, NoFold
<1>2. Init => Control
  BY NoiseAssumption, WebhookAssumption
     DEF Init, Control, SignedIsTrue, ForeignUnknown, Holds, AmountRefused, Captured,
         PaidSteps, SubscriptionSteps, RenewalSteps, OpeningSteps
<1>3. TypeOK /\ Control /\ [Next]_vars => (TypeOK /\ Control)'
  BY StepType, StepControl
<1> QED BY <1>1, <1>2, <1>3, PTL DEF Spec

(* Every variable of PaymentWebhook keeps its type.                        *)
THEOREM Typing == Spec => []TypeOK
BY Invariant, PTL
-----------------------------------------------------------------------------
(* What the statements on subscription rows do to the status of a row.     *)
LEMMA StatusEffects ==
  ASSUME subs \in [Subs -> SubscriptionRow], NEW s, NEW x \in Subs
  PROVE  /\ SaveCardToken(s) => subs'[x].status = subs[x].status
         /\ EndRenewalCalendar(s) => subs'[x].status = subs[x].status
         /\ ClosePendingSubscription(s) => subs'[x].status \in {subs[x].status, "CANCELED"}
         /\ DeactivateSubscription(s) => subs'[x].status \in {subs[x].status, "CANCELED"}
         /\ \A r, base : FoldSubscription(s, r, base) =>
               subs'[x].status \in {subs[x].status, "CANCELED"}
         /\ OpenSubscription(s) => (x = s /\ Openable(s)) \/ subs'[x] = subs[x]
         /\ RenewSubscription(s) =>
               \/ x = s /\ Renewable(s)
               \/ subs'[x] = subs[x]
<1>1. subs[x] \in SubscriptionRow
  OBVIOUS
<1>2. /\ [subs[x] EXCEPT !.card = TRUE].status = subs[x].status
      /\ [subs[x] EXCEPT !.calendar = FALSE, !.card = FALSE].status = subs[x].status
      /\ [subs[x] EXCEPT !.status = "CANCELED", !.canceledBy = "PAYMENT"].status = "CANCELED"
  BY <1>1 DEF SubscriptionRow
<1>3. SaveCardToken(s) => subs'[x].status = subs[x].status
  BY <1>2 DEF SaveCardToken
<1>4. EndRenewalCalendar(s) => subs'[x].status = subs[x].status
  BY <1>2 DEF EndRenewalCalendar
<1>5. ASSUME NEW guard, CloseSubscription(s, guard)
      PROVE  subs'[x].status \in {subs[x].status, "CANCELED"}
  BY <1>2, <1>5 DEF CloseSubscription
<1>6. ASSUME NEW r, NEW base, FoldSubscription(s, r, base)
      PROVE  subs'[x].status \in {subs[x].status, "CANCELED"}
  <2> DEFINE end == Later(base, now) + Period
             gained == [subs EXCEPT ![r] = [@ EXCEPT !.end = end, !.cancelAtEnd = FALSE]]
  <2>1. [subs[x] EXCEPT !.end = end, !.cancelAtEnd = FALSE].status = subs[x].status
    BY <1>1 DEF SubscriptionRow
  <2>2. gained[x].status = subs[x].status
    BY <2>1
  <2>3. gained[x] \in [status : SubscriptionRowStates, canceledBy : Cancelers,
                       cancelAtEnd : BOOLEAN, end : {subs[x].end, end},
                       calendar : BOOLEAN, card : BOOLEAN]
    BY <1>1 DEF SubscriptionRow
  <2>4. [gained[x] EXCEPT !.status = "CANCELED", !.canceledBy = "SYSTEM"].status = "CANCELED"
    BY <2>3
  <2>5. /\ x \in DOMAIN gained
        /\ subs' = [gained EXCEPT ![s] = [@ EXCEPT !.status = "CANCELED",
                                                  !.canceledBy = "SYSTEM"]]
    BY <1>6 DEF FoldSubscription
  <2> HIDE DEF gained
  <2> QED BY <2>2, <2>4, <2>5
<1>7. OpenSubscription(s) => (x = s /\ Openable(s)) \/ subs'[x] = subs[x]
  BY DEF OpenSubscription
<1>8. RenewSubscription(s) => (x = s /\ Renewable(s)) \/ subs'[x] = subs[x]
  BY DEF RenewSubscription
<1> QED BY <1>3, <1>4, <1>5, <1>6, <1>7, <1>8 DEF ClosePendingSubscription, DeactivateSubscription

(* The steps that leave the subscription rows alone.                       *)
LEMMA OtherSteps ==
  ASSUME [Next]_vars,
         ~ \E h \in Handlers : \/ SaveCard(h) \/ EndCalendar(h) \/ ClosePending(h)
                               \/ Deactivate(h) \/ Fold(h) \/ Open(h) \/ Renew(h)
  PROVE  subs' = subs
<1>1. ASSUME NEW h \in Handlers, HandlerStep(h) PROVE subs' = subs
  BY <1>1 DEF HandlerStep, Decide, Transition, ReadRunning, Grant, Revoke, Credit,
     Reverse, RecordRenewal, Mark, dbVars
<1>2. GatewayStep \/ Tick \/ UNCHANGED vars => subs' = subs
  BY DEF GatewayStep, Tick, vars, dbVars
<1>3. ASSUME NEW h \in Handlers, Crash(h) \/ \E d \in sent : ReceiveDelivery(h, d)
      PROVE  subs' = subs
  BY <1>3 DEF Crash, ReceiveDelivery, dbVars
<1> QED BY <1>1, <1>2, <1>3 DEF Next

(* A row only becomes ACTIVE by a step that found no other ACTIVE row of    *)
(* its plan, for an order the gateway has approved.                        *)
LEMMA Activation ==
  ASSUME TypeOK, Control, [Next]_vars, NEW s \in Subs,
         subs[s].status # "ACTIVE", subs'[s].status = "ACTIVE"
  PROVE  /\ ~ActiveKeyTaken(s)
         /\ \A x \in Subs \ {s} : subs'[x] = subs[x]
         /\ Openable(s) \/ Renewable(s)
         /\ \E o \in Orders : SubOf[o] = s /\ Paid(o)
<1>0. subs \in [Subs -> SubscriptionRow]
  BY DEF TypeOK, StoreTypeOK
<1>1. PICK h \in Handlers : \/ SaveCard(h) \/ EndCalendar(h) \/ ClosePending(h)
                            \/ Deactivate(h) \/ Fold(h) \/ Open(h) \/ Renew(h)
  BY OtherSteps
<1>2. Open(h) \/ Renew(h)
  BY <1>0, <1>1, StatusEffects DEF SaveCard, EndCalendar, ClosePending, Deactivate, Fold
<1>3. order(h) \in Orders /\ Paid(order(h)) /\ sub(h) = SubOf[order(h)]
  <2>1. pc[h] \in {"open", "renew"}
    BY <1>2 DEF Open, Renew
  <2> QED
    BY <2>1, DeliveryFields
       DEF Control, Holds, PaidSteps, TypeOK, HandlerTypeOK, order, sub
<1>4. CASE Open(h)
  <2>1. ~(Openable(sub(h)) /\ ActiveKeyTaken(sub(h))) /\ OpenSubscription(sub(h))
    BY <1>4 DEF Open, Throw, dbVars
  <2>2. s = sub(h) /\ Openable(s)
    BY <1>0, <2>1, StatusEffects
  <2>3. \A x \in Subs \ {s} : subs'[x] = subs[x]
    BY <1>0, <2>1, <2>2, StatusEffects
  <2> QED BY <1>3, <2>1, <2>2, <2>3
<1>5. CASE Renew(h)
  <2>1. /\ ~(Renewable(sub(h)) /\ subs[sub(h)].status # "ACTIVE" /\ ActiveKeyTaken(sub(h)))
        /\ RenewSubscription(sub(h))
    BY <1>5 DEF Renew, Throw, dbVars
  <2>2. s = sub(h) /\ Renewable(s)
    BY <1>0, <2>1, StatusEffects
  <2>3. \A x \in Subs \ {s} : subs'[x] = subs[x]
    BY <1>0, <2>1, <2>2, StatusEffects
  <2> QED BY <1>3, <2>1, <2>2, <2>3
<1> QED BY <1>2, <1>4, <1>5

(* A step keeps one ACTIVE row per plan: both statements that make a row     *)
(* ACTIVE consult the unique index.                                        *)
LEMMA StepOneActive ==
  ASSUME TypeOK, Control, OneActivePerPlan, [Next]_vars
  PROVE  OneActivePerPlan'
<1> SUFFICES ASSUME NEW r \in Subs, NEW s \in Subs, r # s, PlanOf[r] = PlanOf[s],
                    subs'[r].status = "ACTIVE", subs'[s].status = "ACTIVE"
             PROVE  FALSE
  BY DEF OneActivePerPlan
<1>1. CASE subs[r].status # "ACTIVE"
  BY <1>1, Activation DEF ActiveKeyTaken, RunningBeside
<1>2. CASE subs[s].status # "ACTIVE"
  BY <1>2, Activation DEF ActiveKeyTaken, RunningBeside
<1> QED BY <1>1, <1>2 DEF OneActivePerPlan

(* One ACTIVE subscription per user and plan, however many requests race:   *)
(* the unique index is consulted by both statements that make a row ACTIVE. *)
THEOREM OneActive == Spec => []OneActivePerPlan
<1>1. Init => OneActivePerPlan
  BY DEF Init, OneActivePerPlan
<1>2. TypeOK /\ Control /\ OneActivePerPlan /\ [Next]_vars => OneActivePerPlan'
  BY StepOneActive
<1> QED BY <1>1, <1>2, Invariant, PTL DEF Spec

(* No statement reopens a row a person or the system closed.               *)
LEMMA StepShut ==
  ASSUME TypeOK, Control, [Next]_vars, NEW s \in Subs,
         subs[s].status = "CANCELED", subs[s].canceledBy \in {"USER", "SYSTEM"}
  PROVE  subs'[s].status = "CANCELED"
<1>1. subs \in [Subs -> SubscriptionRow]
  BY DEF TypeOK, StoreTypeOK
<1>2. ASSUME NEW h \in Handlers,
             \/ SaveCard(h) \/ EndCalendar(h) \/ ClosePending(h)
             \/ Deactivate(h) \/ Fold(h)
      PROVE  subs'[s].status \in {subs[s].status, "CANCELED"}
  BY <1>1, <1>2, StatusEffects DEF SaveCard, EndCalendar, ClosePending, Deactivate, Fold
<1>3. ASSUME NEW h \in Handlers, Open(h) PROVE subs'[s] = subs[s]
  <2>1. ~Openable(s)
    BY DEF Openable
  <2>2. OpenSubscription(sub(h)) \/ subs' = subs
    BY <1>3 DEF Open, Throw, dbVars
  <2> QED BY <1>1, <2>1, <2>2, StatusEffects
<1>4. ASSUME NEW h \in Handlers, Renew(h) PROVE subs'[s] = subs[s]
  <2>1. ~Renewable(s)
    BY DEF Renewable
  <2>2. RenewSubscription(sub(h)) \/ subs' = subs
    BY <1>4 DEF Renew, Throw, dbVars
  <2> QED BY <1>1, <2>1, <2>2, StatusEffects
<1> QED BY <1>2, <1>3, <1>4, OtherSteps

(* A row a person cancelled or the system folded is never reopened, by no   *)
(* approval, retry or renewal.                                             *)
THEOREM ShutRows == Spec => ShutRowsStayShut
<1>1. TypeOK /\ Control /\ [Next]_vars =>
        [\A s \in Subs :
           subs[s].status = "CANCELED" /\ subs[s].canceledBy \in {"USER", "SYSTEM"}
             => subs'[s].status = "CANCELED"]_vars
  BY StepShut
<1> QED BY <1>1, Invariant, PTL DEF Spec, ShutRowsStayShut

(* No step gives anything for an order the gateway has not approved.       *)
LEMMA StepUnpaid ==
  ASSUME TypeOK, Control, NothingUnpaid, [Next]_vars
  PROVE  NothingUnpaid'
<1>1. NoUnpaidSubscription'
  <2> SUFFICES ASSUME NEW s \in Subs, subs'[s].status = "ACTIVE"
               PROVE  \E o \in Orders : SubOf[o] # None /\ PlanOf[SubOf[o]] = PlanOf[s] /\ Paid(o)'
    BY DEF NoUnpaidSubscription
  <2>1. CASE subs[s].status = "ACTIVE"
    BY <2>1, PaidStays DEF NothingUnpaid, NoUnpaidSubscription
  <2>2. CASE subs[s].status # "ACTIVE"
    BY <2>2, Activation, PaidStays, NoneAssumption
  <2> QED BY <2>1, <2>2
<1>2. ASSUME NEW h \in Handlers, pc[h] \in PaidSteps
      PROVE  \E o \in Orders : o = order(h) /\ Paid(o)'
  <2>1. order(h) \in Orders /\ Paid(order(h))
    BY <1>2, DeliveryFields DEF Control, Holds, TypeOK, HandlerTypeOK, order, PaidSteps
  <2> QED BY <2>1, PaidStays
<1>3. NoUnpaidTicket'
  <2> SUFFICES ASSUME NEW t \in Tickets, purchases'[t].payment # None
               PROVE  Paid(purchases[t].payment)'
    BY DEF NoUnpaidTicket
  <2>1. purchases[t] \in PurchaseRow /\ purchases \in [Tickets -> PurchaseRow]
    BY DEF TypeOK, StoreTypeOK
  <2>2. CASE purchases'[t].payment = purchases[t].payment
    BY <2>1, <2>2, PaidStays DEF NothingUnpaid, NoUnpaidTicket, PurchaseRow
  <2>3. ASSUME NEW h \in Handlers, Grant(h), purchases'[t].payment # purchases[t].payment
        PROVE  Paid(purchases[t].payment)'
    <3>1. purchases'[t].payment = order(h)
      BY <2>1, <2>3 DEF Grant, GrantTicketPurchase
    <3>2. pc[h] \in PaidSteps
      BY <2>3 DEF Grant, PaidSteps
    <3> QED BY <1>2, <3>1, <3>2
  <2>4. ASSUME NEW h \in Handlers, Revoke(h)
        PROVE  purchases'[t].payment = purchases[t].payment
    <3>1. [purchases[t] EXCEPT !.revoked = TRUE].payment = purchases[t].payment
      BY <2>1 DEF PurchaseRow
    <3> QED BY <2>1, <2>4, <3>1 DEF Revoke, RevokeTicketPurchase
  <2>5. ASSUME ~ \E h \in Handlers : Grant(h) \/ Revoke(h)
        PROVE  purchases' = purchases
    BY <2>5 DEF Next, GatewayStep, HandlerStep, Decide, Transition, SaveCard,
       ReadRunning, Open, Fold, Deactivate, ClosePending, Credit, Reverse, EndCalendar,
       RecordRenewal, Renew, Mark, Crash, ReceiveDelivery, Throw, Tick, vars, dbVars
  <2> QED BY <2>2, <2>3, <2>4, <2>5
<1>4. NoUnpaidMoney'
  <2> SUFFICES ASSUME NEW o \in Orders,
                      Earned(o)' \/ TakenBack(o)' \/ payments'[o] \in Captured
               PROVE  Paid(o)'
    BY DEF NoUnpaidMoney
  <2>1. payments \in [Orders -> PaymentRowStates]
    BY DEF TypeOK, StoreTypeOK
  <2>2. CASE Earned(o) \/ TakenBack(o) \/ payments[o] \in Captured
    BY <2>2, PaidStays DEF NothingUnpaid, NoUnpaidMoney
  <2>3. ASSUME NEW h \in Handlers, Transition(h), payments'[o] # payments[o],
               payments'[o] \in Captured
        PROVE  Paid(o)'
    <3>1. o = order(h) /\ payments'[o] = msg[h].status
      BY <2>1, <2>3 DEF Transition, TransitionPayment
    <3>2. Paid(o)
      BY <2>3, <3>1 DEF Control, Holds, Transition
    <3> QED BY <3>2, PaidStays
  <2>4. ASSUME NEW h \in Handlers, RecordRenewal(h), payments'[o] # payments[o]
        PROVE  Paid(o)'
    <3>1. o = order(h)
      BY <2>1, <2>4 DEF RecordRenewal, RecordRenewalPayment
    <3>2. pc[h] \in PaidSteps
      BY <2>4 DEF RecordRenewal, PaidSteps
    <3> QED BY <1>2, <3>1, <3>2
  <2>5. ASSUME NEW h \in Handlers, Credit(h) \/ Reverse(h), ledger' # ledger,
               ~Earned(o), ~TakenBack(o), Earned(o)' \/ TakenBack(o)'
        PROVE  Paid(o)'
    <3>1. ledger' \subseteq ledger \union {Row(order(h), "ANALYST_EARNING"),
                                          Row(order(h), "ANALYST_EARNING_REVERSAL")}
      BY <2>5 DEF Credit, Reverse, CreditAnalystEarning, ReverseAnalystEarning,
         ApplyEarningsMovement
    <3>2. o = order(h)
      BY <2>5, <3>1 DEF Earned, TakenBack, Row
    <3>3. pc[h] \in PaidSteps
      BY <2>5 DEF Credit, Reverse, PaidSteps
    <3> QED BY <1>2, <3>2, <3>3
  <2>6. ASSUME ~ \E h \in Handlers : Transition(h) \/ RecordRenewal(h)
        PROVE  payments' = payments
    BY <2>6 DEF Next, GatewayStep, HandlerStep, Decide, SaveCard,
       ReadRunning, Open, Fold, Deactivate, ClosePending, Grant, Revoke, Credit, Reverse,
       EndCalendar, Renew, Mark, Crash, ReceiveDelivery, Throw, Tick, vars, dbVars
  <2>7. ASSUME ~ \E h \in Handlers : Credit(h) \/ Reverse(h)
        PROVE  ledger' = ledger
    BY <2>7 DEF Next, GatewayStep, HandlerStep, Decide, Transition, SaveCard,
       ReadRunning, Open, Fold, Deactivate, ClosePending, Grant, Revoke, EndCalendar,
       RecordRenewal, Renew, Mark, Crash, ReceiveDelivery, Throw, Tick, vars, dbVars
  <2> QED BY <2>2, <2>3, <2>4, <2>5, <2>6, <2>7 DEF Earned, TakenBack
<1> QED BY <1>1, <1>3, <1>4 DEF NothingUnpaid

(* Nothing is given for an order the gateway never approved, whatever was   *)
(* declined, expired, duplicated, forged or mispriced on the way.          *)
THEOREM NothingForUnpaid == Spec => []NothingUnpaid
<1>1. Init => NothingUnpaid
  BY DEF Init, NothingUnpaid, NoUnpaidMoney, NoUnpaidSubscription, NoUnpaidTicket,
         Earned, TakenBack, Captured, Reversing
<1>2. TypeOK /\ Control /\ NothingUnpaid /\ [Next]_vars => NothingUnpaid'
  BY StepUnpaid
<1> QED BY <1>1, <1>2, Invariant, PTL DEF Spec

(* The payment table behaves as PaymentLifecycle promises: two handlers     *)
(* that decided on the same stale status still move it one edge at a time.  *)
THEOREM LifecycleRefined == Spec => PaymentsFollowLifecycle
<1>1. Init => Lifecycle!Init
  BY DEF Init, Lifecycle!Init
<1>2. TypeOK /\ Control /\ [Next]_vars => [Lifecycle!Next]_payments
  <2> SUFFICES ASSUME TypeOK, Control, [Next]_vars, payments' # payments
               PROVE  Lifecycle!Next
    OBVIOUS
  <2>0. payments \in [Orders -> PaymentRowStates]
    BY DEF TypeOK, StoreTypeOK
  <2>1. PICK h \in Handlers : Transition(h) \/ RecordRenewal(h)
    BY DEF Next, GatewayStep, HandlerStep, Decide, SaveCard, ReadRunning, Open, Fold,
       Deactivate, ClosePending, Grant, Revoke, Credit, Reverse, EndCalendar, Renew,
       Mark, Crash, ReceiveDelivery, Throw, Tick, vars, dbVars
  <2>2. order(h) \in Orders
    BY <2>1, DeliveryFields DEF TypeOK, HandlerTypeOK, order, Transition, RecordRenewal
  <2>3. CASE Transition(h)
    <3>1. payments[order(h)] = seen[h] /\ seen[h] \in PaymentStatuses
      BY <2>0, <2>2, <2>3
         DEF Transition, TransitionPayment, Control, Holds, PaymentRowStates
    <3>2. CanTransition(seen[h], msg[h].status) /\ msg[h].status \in PaymentStatuses
      BY <2>3, <3>1, AllowedTargets DEF Transition, Control, Holds
    <3>3. payments' = [payments EXCEPT ![order(h)] = msg[h].status]
      BY <2>3, <3>1 DEF Transition, TransitionPayment
    <3> QED
      BY <2>2, <3>1, <3>2, <3>3 DEF Lifecycle!Next, Lifecycle!Move, CanTransition,
         Lifecycle!CanTransition, Lifecycle!AllowedTransitions, AllowedTransitions,
         Lifecycle!PaymentStatuses, PaymentStatuses
  <2>4. CASE RecordRenewal(h)
    BY <2>2, <2>4 DEF RecordRenewal, RecordRenewalPayment, Lifecycle!Next,
       Lifecycle!OpenRenewal
  <2> QED BY <2>1, <2>3, <2>4
<1> QED BY <1>1, <1>2, Invariant, PTL DEF Spec, PaymentsFollowLifecycle, Lifecycle!Spec
-----------------------------------------------------------------------------
(* A payment row, once there, stays.                                       *)
LEMMA FoundStays ==
  ASSUME TypeOK, Control, [Next]_vars, NEW o \in Orders, Found(o)
  PROVE  Found(o)'
<1>0. payments \in [Orders -> PaymentRowStates]
  BY DEF TypeOK, StoreTypeOK
<1>1. ASSUME NEW h \in Handlers, Transition(h) PROVE Found(o)'
  <2>1. seen[h] \in PaymentStatuses /\ CanTransition(seen[h], msg[h].status)
    BY <1>1 DEF Control, Holds, Transition, TypeOK, HandlerTypeOK, PaymentRowStates
  <2>2. msg[h].status # "NONE"
    BY <2>1, AllowedTargets DEF PaymentStatuses
  <2> QED BY <1>0, <1>1, <2>2 DEF Transition, TransitionPayment, Found
<1>2. ASSUME NEW h \in Handlers, RecordRenewal(h) PROVE Found(o)'
  BY <1>0, <1>2 DEF RecordRenewal, RecordRenewalPayment, Found
<1>3. ASSUME ~ \E h \in Handlers : Transition(h) \/ RecordRenewal(h)
      PROVE  payments' = payments
  BY <1>3 DEF Next, GatewayStep, HandlerStep, Decide, SaveCard,
     ReadRunning, Open, Fold, Deactivate, ClosePending, Grant, Revoke, Credit, Reverse,
     EndCalendar, Renew, Mark, Crash, ReceiveDelivery, Throw, Tick, vars, dbVars
<1> QED BY <1>1, <1>2, <1>3 DEF Found

(* A request that will report its renewal as unwanted, unless it can still  *)
(* renew the row, has recorded the payment; no other request about the same *)
(* order will report it, and none has.                                     *)
WillReport(h) == verdict[h] = "RENEWAL_UNWANTED"

UnwantedReport(r) == r.verdict = "RENEWAL_UNWANTED"

OneRefund ==
  /\ \A h \in Handlers : WillReport(h) =>
       pc[h] \in {"credit", "renew", "mark"} /\ Found(order(h))
  /\ \A g, h \in Handlers : WillReport(g) /\ WillReport(h) /\ order(g) = order(h) => g = h
  /\ \A r \in reports : UnwantedReport(r) =>
       /\ Found(r.id.order)
       /\ \A h \in Handlers : WillReport(h) => order(h) # r.id.order
  /\ \A r, q \in reports :
       UnwantedReport(r) /\ UnwantedReport(q) /\ r.id.order = q.id.order => r = q

(* Where the verdict of such a request comes from.                         *)
LEMMA ReportingSteps ==
  ASSUME TypeOK, OneRefund, [Next]_vars, NEW g \in Handlers, WillReport(g)'
  PROVE  \/ /\ WillReport(g) /\ msg'[g] = msg[g]
            /\ pc'[g] \in {"credit", "renew", "mark"}
         \/ RecordRenewal(g) /\ ~Found(order(g)) /\ pc'[g] = "credit" /\ msg'[g] = msg[g]
<1>0. HandlerTypeOK
  BY DEF TypeOK
<1>1. CASE UNCHANGED handlerVars
  BY <1>1 DEF handlerVars, OneRefund, WillReport
<1>2. CASE GatewayStep \/ Tick \/ UNCHANGED vars
  BY <1>1, <1>2 DEF GatewayStep, Tick, vars
<1>3. ASSUME NEW h \in Handlers, NEW d \in sent, ReceiveDelivery(h, d)
      PROVE  WillReport(g) /\ g # h
  BY <1>3 DEF ReceiveDelivery, OneRefund, WillReport
<1>4. ASSUME NEW h \in Handlers, NEW d \in sent, ReceiveDelivery(h, d)
      PROVE  pc'[g] = pc[g] /\ msg'[g] = msg[g] /\ WillReport(g)
  BY <1>0, <1>3, <1>4 DEF ReceiveDelivery, Goto, HandlerTypeOK
<1>5. ASSUME NEW h \in Handlers, HandlerStep(h) \/ Crash(h), g # h
      PROVE  pc'[g] = pc[g] /\ msg'[g] = msg[g] /\ verdict'[g] = verdict[g]
  BY <1>0, <1>5
     DEF HandlerStep, Decide, DecidePayment, DecideRenewal, Reject, Accept,
         Transition, SaveCard, ReadRunning, Open, Fold, Deactivate, ClosePending,
         Grant, Revoke, Credit, Reverse, EndCalendar, RecordRenewal, Renew, Mark,
         Throw, Forget, Goto, HandlerTypeOK, Crash
<1>6. ASSUME Crash(g) \/ Mark(g) \/ (Open(g) /\ Throw(g)) \/ (Renew(g) /\ Throw(g))
      PROVE  FALSE
  BY <1>0, <1>6 DEF Crash, Mark, Throw, Forget, WillReport, HandlerTypeOK
<1>7. ASSUME Decide(g) PROVE FALSE
  BY <1>0, <1>7 DEF Decide, DecidePayment, DecideRenewal, Reject, Accept, WillReport,
     OneRefund, HandlerTypeOK
<1>8. ASSUME Transition(g) \/ EndCalendar(g) PROVE FALSE
  BY <1>0, <1>8 DEF Transition, EndCalendar, WillReport, HandlerTypeOK
<1>9. ASSUME \/ SaveCard(g) \/ ReadRunning(g) \/ Fold(g) \/ Deactivate(g)
             \/ ClosePending(g) \/ Grant(g) \/ Revoke(g) \/ Reverse(g)
             \/ (Open(g) /\ ~Throw(g))
      PROVE  FALSE
  BY <1>0, <1>9 DEF SaveCard, ReadRunning, Fold, Deactivate, ClosePending, Grant,
     Revoke, Reverse, Open, WillReport, OneRefund
<1>10. ASSUME Credit(g)
       PROVE  WillReport(g) /\ msg'[g] = msg[g] /\ pc'[g] \in {"credit", "renew", "mark"}
  BY <1>0, <1>10 DEF Credit, Goto, WillReport, HandlerTypeOK
<1>11. ASSUME Renew(g), ~Throw(g)
       PROVE  WillReport(g) /\ msg'[g] = msg[g] /\ pc'[g] \in {"credit", "renew", "mark"}
  BY <1>0, <1>11 DEF Renew, Goto, WillReport, HandlerTypeOK
<1>12. ASSUME RecordRenewal(g)
       PROVE  ~Found(order(g)) /\ pc'[g] = "credit" /\ msg'[g] = msg[g]
  BY <1>0, <1>12 DEF RecordRenewal, Goto, WillReport, HandlerTypeOK
<1>13. HandlerStep(g) =>
         \/ /\ WillReport(g) /\ msg'[g] = msg[g]
            /\ pc'[g] \in {"credit", "renew", "mark"}
         \/ RecordRenewal(g) /\ ~Found(order(g)) /\ pc'[g] = "credit" /\ msg'[g] = msg[g]
  BY <1>6, <1>7, <1>8, <1>9, <1>10, <1>11, <1>12 DEF HandlerStep
<1>14. ASSUME NEW h \in Handlers, HandlerStep(h) \/ Crash(h), g # h
       PROVE  WillReport(g) /\ msg'[g] = msg[g] /\ pc'[g] \in {"credit", "renew", "mark"}
  BY <1>5, <1>14 DEF WillReport, OneRefund
<1>15. ASSUME NEW h \in Handlers, NEW d \in sent, ReceiveDelivery(h, d)
       PROVE  WillReport(g) /\ msg'[g] = msg[g] /\ pc'[g] \in {"credit", "renew", "mark"}
  BY <1>4, <1>15 DEF OneRefund
<1> QED BY <1>2, <1>6, <1>13, <1>14, <1>15 DEF Next

(* The step that adds a report is the one that ends its request.           *)
LEMMA ReportsGrow ==
  ASSUME TypeOK, [Next]_vars, NEW r \in reports' \ reports, UnwantedReport(r)
  PROVE  \E h \in Handlers :
           /\ pc[h] = "mark" /\ WillReport(h) /\ msg[h] \in Delivery
           /\ r.id.order = order(h)
           /\ ~WillReport(h)'
           /\ reports' = reports \union {r}
<1>1. PICK h \in Handlers : Mark(h)
  BY DEF Next, GatewayStep, ReceiveDelivery, HandlerStep, Decide, Transition, SaveCard,
     ReadRunning, Open, Fold, Deactivate, ClosePending, Grant, Revoke, Credit, Reverse,
     EndCalendar, RecordRenewal, Renew, Throw, Crash, Tick, vars, auditVars
<1>2. msg[h] \in Delivery /\ pc[h] = "mark"
  BY <1>1 DEF Mark, TypeOK, HandlerTypeOK
<1>3. /\ verdict[h] \in ActedOn
      /\ r = [id |-> ClaimedId(msg[h]), verdict |-> verdict[h]]
      /\ reports' = reports \union {r}
  BY <1>1 DEF Mark
<1>4. r.id.order = order(h) /\ r.verdict = verdict[h]
  BY <1>3 DEF ClaimedId, order
<1>5. verdict'[h] = "none"
  BY <1>1 DEF Mark, Forget, TypeOK, HandlerTypeOK
<1> QED BY <1>2, <1>3, <1>4, <1>5 DEF WillReport, UnwantedReport

LEMMA RefundStep ==
  ASSUME TypeOK, Control, OneRefund, [Next]_vars
  PROVE  OneRefund'
<1>1. ASSUME NEW h \in Handlers, WillReport(h)'
      PROVE  /\ pc'[h] \in {"credit", "renew", "mark"}
             /\ Found(order(h))'
             /\ order(h)' = order(h)
             /\ WillReport(h) \/ ~Found(order(h))
  <2>1. msg'[h] = msg[h] /\ pc'[h] \in {"credit", "renew", "mark"}
    BY <1>1, ReportingSteps
  <2>2. msg'[h] \in Delivery /\ order(h) \in Orders
    <3>1. msg'[h] \in Delivery
      BY <2>1, StepType DEF TypeOK, HandlerTypeOK
    <3> QED BY <2>1, <3>1, DeliveryFields DEF order
  <2>3. CASE WillReport(h)
    BY <2>1, <2>2, <2>3, FoundStays DEF OneRefund, order, Found
  <2>4. CASE RecordRenewal(h) /\ ~Found(order(h))
    BY <2>1, <2>2, <2>4 DEF RecordRenewal, RecordRenewalPayment, order, Found, TypeOK, StoreTypeOK
  <2> QED BY <1>1, <2>1, <2>3, <2>4, ReportingSteps DEF order
<1>2. ASSUME NEW g \in Handlers, NEW h \in Handlers,
             WillReport(g)', WillReport(h)', order(g)' = order(h)'
      PROVE  g = h
  <2>1. order(g) = order(h)
    BY <1>1, <1>2
  <2>2. CASE WillReport(g) /\ WillReport(h)
    BY <2>1, <2>2 DEF OneRefund
  <2>3. CASE ~WillReport(g) /\ ~WillReport(h)
    <3>1. RecordRenewal(g) /\ RecordRenewal(h)
      BY <1>2, <2>3, ReportingSteps
    <3>2. g # h => pc'[h] = pc[h]
      BY <3>1 DEF RecordRenewal, Goto, TypeOK, HandlerTypeOK
    <3>3. pc[h] = "recordRenewal" /\ pc'[h] # "recordRenewal"
      BY <1>1, <1>2, <3>1 DEF RecordRenewal
    <3> QED BY <3>2, <3>3
  <2>4. CASE WillReport(g) /\ ~WillReport(h)
    <3>1. Found(order(g)) /\ ~Found(order(h))
      BY <1>1, <1>2, <2>4 DEF OneRefund
    <3> QED BY <2>1, <3>1
  <2>5. CASE ~WillReport(g) /\ WillReport(h)
    <3>1. ~Found(order(g)) /\ Found(order(h))
      BY <1>1, <1>2, <2>5 DEF OneRefund
    <3> QED BY <2>1, <3>1
  <2> QED BY <2>2, <2>3, <2>4, <2>5
<1>3. ASSUME NEW r \in reports', UnwantedReport(r)
      PROVE  Found(r.id.order)'
  <2>1. CASE r \in reports
    <3>1. r.id.order \in Orders /\ Found(r.id.order)
      BY <1>3, <2>1 DEF OneRefund, TypeOK, AuditTypeOK, EventId
    <3> QED BY <3>1, FoundStays
  <2>2. CASE r \notin reports
    <3>1. PICK h \in Handlers : WillReport(h) /\ r.id.order = order(h) /\ msg[h] \in Delivery
      BY <1>3, <2>2, ReportsGrow
    <3>2. order(h) \in Orders /\ Found(order(h))
      BY <3>1, DeliveryFields DEF OneRefund, order
    <3> QED BY <3>1, <3>2, FoundStays
  <2> QED BY <2>1, <2>2
<1>4. ASSUME NEW r \in reports', UnwantedReport(r), NEW h \in Handlers, WillReport(h)'
      PROVE  order(h)' # r.id.order
  <2>1. CASE r \in reports
    BY <1>1, <1>4, <2>1 DEF OneRefund
  <2>2. CASE r \notin reports
    <3>1. PICK g \in Handlers : WillReport(g) /\ r.id.order = order(g) /\ ~WillReport(g)'
      BY <1>4, <2>2, ReportsGrow
    <3>2. g # h
      BY <1>4, <3>1
    <3>3. Found(order(g))
      BY <3>1 DEF OneRefund
    <3> QED BY <1>1, <1>4, <3>1, <3>2, <3>3 DEF OneRefund
  <2> QED BY <2>1, <2>2
<1>5. ASSUME NEW r \in reports', NEW q \in reports', UnwantedReport(r), UnwantedReport(q),
             r.id.order = q.id.order
      PROVE  r = q
  <2>1. CASE r \in reports /\ q \in reports
    BY <1>5, <2>1 DEF OneRefund
  <2>2. CASE r \notin reports
    BY <1>5, <2>2, ReportsGrow DEF OneRefund
  <2>3. CASE q \notin reports
    BY <1>5, <2>3, ReportsGrow DEF OneRefund
  <2> QED BY <2>1, <2>2, <2>3
<1>6. \A r : UnwantedReport(r)' <=> UnwantedReport(r)
  BY DEF UnwantedReport
<1> QED BY <1>1, <1>2, <1>3, <1>4, <1>5, <1>6 DEF OneRefund

(* An unwanted renewal is reported, and so refunded, at most once per order, *)
(* however many deliveries, repeats and requests there are: only the         *)
(* request that recorded the payment carries the verdict.                  *)
THEOREM RefundsOnce == Spec => []UnwantedReportedOnce
<1>1. Init => OneRefund
  BY DEF Init, OneRefund, WillReport
<1>2. TypeOK /\ Control /\ OneRefund /\ [Next]_vars => OneRefund'
  BY RefundStep
<1>3. OneRefund => UnwantedReportedOnce
  <2> SUFFICES ASSUME OneRefund, NEW o \in Orders
               PROVE  Cardinality({r \in reports : r.id.order = o /\ UnwantedReport(r)}) <= 1
    BY DEF UnwantedReportedOnce, UnwantedReport
  <2>1. PICK R : R = {r \in reports : r.id.order = o /\ UnwantedReport(r)}
    OBVIOUS
  <2>2. CASE R = {}
    BY <2>1, <2>2, FS_EmptySet
  <2>3. ASSUME NEW r \in R PROVE Cardinality(R) = 1
    <3>1. R = {r}
      BY <2>1, <2>3 DEF OneRefund
    <3> QED BY <3>1, FS_Singleton
  <2> QED BY <2>1, <2>2, <2>3
<1> QED BY <1>1, <1>2, <1>3, Invariant, PTL DEF Spec

-----------------------------------------------------------------------------
(* What follows is about requests that do not meet: two are never under way  *)
(* for one order, one ticket or one plan of one user at the same moment,     *)
(* while any number are under way about different matters.  (With two of one *)
(* matter, a guarded update that matched nothing is not noticed by the       *)
(* request, webhook.ts:389, and it goes on to credit or to open a row.)      *)
SameMatter(o, p) ==
  \/ o = p
  \/ SubOf[o] # None /\ SubOf[p] # None /\ PlanOf[SubOf[o]] = PlanOf[SubOf[p]]
  \/ TicketOf[o] # None /\ TicketOf[o] = TicketOf[p]

Busy(h) == pc[h] # "idle"

OneAtATime ==
  \A g, h \in Handlers : Busy(g) /\ Busy(h) /\ SameMatter(order(g), order(h)) => g = h

(* What a request still owes to the order it has moved.                    *)
GivesAccess(h) ==
  pc[h] \in {"activate", "open", "fold"} \/ (pc[h] = "saveCard" /\ verdict[h] = "APPLIED")

CreditDue(h) == GivesAccess(h) \/ pc[h] \in {"grant", "credit"}
ReturnDue(h) == pc[h] \in {"deactivate", "revoke", "reverse"}

(* The ledger says of an order what its status says.                       *)
Balanced(o) ==
  /\ Earned(o) <=> payments[o] \in Captured
  /\ TakenBack(o) <=> payments[o] \in Reversing

(* What a request in the middle of its work knows of the rows.  An approval  *)
(* or a return moves the payment from what it read; of anything else, where  *)
(* the guarded update may match nothing, no step that follows depends on it. *)
InStep(h) ==
  /\ CreditDue(h) => /\ payments[order(h)] = "SUCCEEDED"
                     /\ Share[order(h)] > 0 => ~TakenBack(order(h))
  /\ ReturnDue(h) => /\ payments[order(h)] \in Reversing
                     /\ Share[order(h)] > 0 => Earned(order(h))
  /\ pc[h] = "transition" /\ msg[h].status \in Captured => seen[h] = payments[order(h)]
  /\ pc[h] = "recordRenewal" => payments[order(h)] = "NONE"
  /\ pc[h] = "open" => RunningBeside(sub(h)) = {}

InWork(o) == \E h \in Handlers : (CreditDue(h) \/ ReturnDue(h)) /\ order(h) = o

BooksKept ==
  /\ \A h \in Handlers : InStep(h)
  /\ \A o \in Orders : Share[o] > 0 => Balanced(o) \/ InWork(o)

(* Where nobody but the webhook writes payments, every update matches.      *)
ReadsFresh == \A h \in Handlers : pc[h] = "transition" => seen[h] = payments[order(h)]

BooksHold == BooksKept /\ ReadsFresh

(* A request works on an order of ours, and what it is about is not         *)
(* somebody else's work.                                                   *)
LEMMA WorksAlone ==
  ASSUME TypeOK, OneAtATime, NEW h \in Handlers, Busy(h)
  PROVE  /\ order(h) \in Orders
         /\ \A g \in Handlers : Busy(g) /\ g # h =>
              order(g) \in Orders /\ ~SameMatter(order(g), order(h)) /\ order(g) # order(h)
<1>1. \A g \in Handlers : Busy(g) => order(g) \in Orders
  BY DeliveryFields DEF TypeOK, HandlerTypeOK, order, Busy
<1> QED BY <1>1 DEF OneAtATime, SameMatter

(* The steps that are nobody's port call leave the rows alone, and no        *)
(* request moves but one that is let in.                                   *)
LEMMA QuietStep ==
  ASSUME TypeOK, [Next]_vars, ~ \E h \in Handlers : HandlerStep(h) \/ Crash(h)
  PROVE  /\ UNCHANGED dbVars
         /\ now' = now \/ (AllIdle /\ now' = now + 1)
         /\ \A g \in Handlers :
              \/ /\ pc'[g] = pc[g] /\ msg'[g] = msg[g] /\ seen'[g] = seen[g]
                 /\ fold'[g] = fold[g] /\ verdict'[g] = verdict[g]
              \/ pc[g] = "idle" /\ pc'[g] = "decide"
<1>1. CASE GatewayStep \/ Tick \/ UNCHANGED vars
  BY <1>1 DEF GatewayStep, Tick, vars, handlerVars
<1>2. ASSUME NEW h \in Handlers, NEW d \in sent, ReceiveDelivery(h, d)
      PROVE  /\ UNCHANGED dbVars /\ now' = now
             /\ \A g \in Handlers :
                  \/ /\ pc'[g] = pc[g] /\ msg'[g] = msg[g] /\ seen'[g] = seen[g]
                     /\ fold'[g] = fold[g] /\ verdict'[g] = verdict[g]
                  \/ pc[g] = "idle" /\ pc'[g] = "decide"
  BY <1>2 DEF ReceiveDelivery, Goto, TypeOK, HandlerTypeOK
<1> QED BY <1>1, <1>2 DEF Next

(* A port call moves its own request only.                                 *)
LEMMA OthersWait ==
  ASSUME TypeOK, NEW h \in Handlers, HandlerStep(h), NEW g \in Handlers, g # h
  PROVE  /\ pc'[g] = pc[g] /\ msg'[g] = msg[g] /\ seen'[g] = seen[g]
         /\ fold'[g] = fold[g] /\ verdict'[g] = verdict[g]
BY DEF HandlerStep, Decide, DecidePayment, DecideRenewal, Reject, Accept,
       Transition, SaveCard, ReadRunning, Open, Fold, Deactivate, ClosePending,
       Grant, Revoke, Credit, Reverse, EndCalendar, RecordRenewal, Renew, Mark,
       Throw, Forget, Goto, TypeOK, HandlerTypeOK

(* It touches the payment and the ledger of its own order only, keeps the    *)
(* clock, and goes on with the same delivery until it has answered.        *)
LEMMA OwnOrderOnly ==
  ASSUME TypeOK, NEW h \in Handlers, HandlerStep(h)
  PROVE  /\ Busy(h)
         /\ now' = now /\ crashes' = crashes
         /\ msg'[h] = msg[h] \/ pc'[h] = "idle"
         /\ \A o \in Orders : o # order(h) =>
              /\ payments'[o] = payments[o]
              /\ Earned(o)' <=> Earned(o)
              /\ TakenBack(o)' <=> TakenBack(o)
<1>0. payments \in [Orders -> PaymentRowStates] /\ HandlerTypeOK
  BY DEF TypeOK, StoreTypeOK
<1>1. Busy(h) /\ now' = now
  BY DEF Busy, HandlerStep, Decide, Transition, SaveCard, ReadRunning, Open, Fold,
     Deactivate, ClosePending, Grant, Revoke, Credit, Reverse, EndCalendar,
     RecordRenewal, Renew, Mark
<1>2. crashes' = crashes
  BY DEF HandlerStep, Decide, Transition, SaveCard, ReadRunning, Open, Fold,
     Deactivate, ClosePending, Grant, Revoke, Credit, Reverse, EndCalendar,
     RecordRenewal, Renew, Mark, Throw, auditVars
<1>3. msg'[h] = msg[h] \/ pc'[h] = "idle"
  BY <1>0 DEF HandlerTypeOK, HandlerStep, Decide, Transition, SaveCard, ReadRunning,
     Open, Fold, Deactivate, ClosePending, Grant, Revoke, Credit, Reverse, EndCalendar,
     RecordRenewal, Renew, Mark, Throw, Forget, Goto
<1>4. ASSUME NEW o \in Orders, o # order(h) PROVE payments'[o] = payments[o]
  BY <1>0, <1>4 DEF HandlerStep, Decide, Transition, SaveCard, ReadRunning, Open, Fold,
     Deactivate, ClosePending, Grant, Revoke, Credit, Reverse, EndCalendar,
     RecordRenewal, Renew, Mark, Throw, TransitionPayment, RecordRenewalPayment, dbVars
<1>5. \/ ledger' = ledger
      \/ ledger' = ledger \union {Row(order(h), "ANALYST_EARNING")}
      \/ ledger' = ledger \union {Row(order(h), "ANALYST_EARNING_REVERSAL")}
  BY DEF HandlerStep, Decide, Transition, SaveCard, ReadRunning, Open, Fold,
     Deactivate, ClosePending, Grant, Revoke, Credit, Reverse, EndCalendar,
     RecordRenewal, Renew, Mark, Throw, dbVars, CreditAnalystEarning,
     ReverseAnalystEarning, ApplyEarningsMovement
<1>6. ASSUME NEW o \in Orders, o # order(h)
      PROVE  (Earned(o)' <=> Earned(o)) /\ (TakenBack(o)' <=> TakenBack(o))
  BY <1>5, <1>6 DEF Earned, TakenBack, Row
<1> QED BY <1>1, <1>2, <1>3, <1>4, <1>6


(* The row a port call makes ACTIVE is its own.                            *)
LEMMA OpensItsOwn ==
  ASSUME TypeOK, NEW h \in Handlers, HandlerStep(h), NEW s \in Subs,
         subs[s].status # "ACTIVE", subs'[s].status = "ACTIVE"
  PROVE  s = sub(h) /\ (Open(h) \/ Renew(h))
<1>0. subs \in [Subs -> SubscriptionRow]
  BY DEF TypeOK, StoreTypeOK
<1>1. \/ SaveCard(h) \/ EndCalendar(h) \/ ClosePending(h)
      \/ Deactivate(h) \/ Fold(h) \/ Open(h) \/ Renew(h) \/ subs' = subs
  BY DEF HandlerStep, Decide, Transition, ReadRunning, Grant, Revoke, Credit, Reverse,
     RecordRenewal, Mark, dbVars
<1>2. Open(h) \/ Renew(h)
  BY <1>0, <1>1, StatusEffects DEF SaveCard, EndCalendar, ClosePending, Deactivate, Fold
<1>3. CASE Open(h)
  <2>1. OpenSubscription(sub(h))
    BY <1>3 DEF Open, Throw, dbVars
  <2> QED BY <1>0, <1>2, <2>1, StatusEffects
<1>4. CASE Renew(h)
  <2>1. RenewSubscription(sub(h))
    BY <1>4 DEF Renew, Throw, dbVars
  <2> QED BY <1>0, <1>2, <2>1, StatusEffects
<1> QED BY <1>2, <1>3, <1>4

(* A movement of earnings adds its row, where there is a share.            *)
LEMMA Movements ==
  ASSUME NEW o, Share[o] > 0
  PROVE  /\ CreditAnalystEarning(o) => Earned(o)' /\ (TakenBack(o)' <=> TakenBack(o))
         /\ ReverseAnalystEarning(o) => TakenBack(o)' /\ (Earned(o)' <=> Earned(o))
<1>1. Row(o, "ANALYST_EARNING") # Row(o, "ANALYST_EARNING_REVERSAL")
  BY DEF Row
<1> QED BY <1>1 DEF CreditAnalystEarning, ReverseAnalystEarning, MovesEarnings,
                    ApplyEarningsMovement, Earned, TakenBack, Row

(* What a request knows stays true under the port calls of the others.     *)
LEMMA InStepElsewhere ==
  ASSUME TypeOK, Control, OneAtATime, NEW h \in Handlers, HandlerStep(h),
         NEW g \in Handlers, g # h, InStep(g)
  PROVE  InStep(g)'
<1>1. pc'[g] = pc[g] /\ msg'[g] = msg[g] /\ seen'[g] = seen[g] /\ verdict'[g] = verdict[g]
  BY OthersWait
<1>2. CASE pc[g] = "idle"
  BY <1>1, <1>2 DEF InStep, CreditDue, GivesAccess, ReturnDue
<1>3. CASE Busy(g)
  <2>1. Busy(h) /\ order(g) \in Orders /\ order(g) # order(h) /\ ~SameMatter(order(g), order(h))
    BY <1>3, WorksAlone, OwnOrderOnly
  <2>2. /\ payments'[order(g)] = payments[order(g)]
        /\ Earned(order(g))' <=> Earned(order(g))
        /\ TakenBack(order(g))' <=> TakenBack(order(g))
    <3>1. PICK o \in Orders : o = order(g)
      BY <2>1
    <3>2. msg'[g].order = o
      BY <1>1, <3>1 DEF order
    <3> QED BY <2>1, <3>1, <3>2, OwnOrderOnly DEF order, Earned, TakenBack
  <2>3. order(g)' = order(g) /\ sub(g)' = sub(g)
    BY <1>1 DEF order, sub
  <2>4. ASSUME pc[g] = "open" PROVE RunningBeside(sub(g))' = {}
    <3>1. RunningBeside(sub(g)) = {} /\ sub(g) # None
      BY <2>4 DEF InStep, Control, Holds, SubscriptionSteps
    <3>2. ASSUME NEW r \in Subs \ {sub(g)}, PlanOf[r] = PlanOf[sub(g)],
                 subs'[r].status = "ACTIVE"
          PROVE  FALSE
      <4>1. subs[r].status # "ACTIVE"
        BY <3>1, <3>2 DEF RunningBeside
      <4>2. r = sub(h) /\ pc[h] \in {"open", "renew"}
        BY <3>2, <4>1, OpensItsOwn DEF Open, Renew
      <4>3. sub(h) # None
        BY <3>2, <4>2, NoneAssumption
      <4> QED BY <2>1, <3>1, <3>2, <4>2, <4>3 DEF SameMatter, order, sub
    <3> QED BY <2>3, <3>2 DEF RunningBeside
  <2> QED BY <1>1, <2>2, <2>3, <2>4 DEF InStep, CreditDue, GivesAccess, ReturnDue
<1> QED BY <1>2, <1>3 DEF Busy


(* What a request knows after its own port call, and that it still owes      *)
(* what the ledger of its order lacks.                                     *)
LEMMA InStepItself ==
  ASSUME TypeOK, Control, OneAtATime, BooksKept, NEW h \in Handlers, HandlerStep(h),
         NEW o \in Orders, o = order(h)
  PROVE  /\ InStep(h)'
         /\ Share[o] > 0 => Balanced(o)' \/ ((CreditDue(h) \/ ReturnDue(h))' /\ order(h)' = o)
<1> DEFINE Due == CreditDue(h) \/ ReturnDue(h)
           Same == payments' = payments /\ ledger' = ledger
<1>0. /\ InStep(h) /\ Holds(h) /\ Busy(h) /\ HandlerTypeOK
      /\ payments \in [Orders -> PaymentRowStates]
  BY OwnOrderOnly DEF BooksKept, Control, TypeOK, StoreTypeOK
<1>1. ~Due /\ Share[o] > 0 => Balanced(o)
  <2>1. \A g \in Handlers : Busy(g) /\ order(g) = o => g = h
    BY <1>0, WorksAlone
  <2>2. \A g \in Handlers : CreditDue(g) \/ ReturnDue(g) => Busy(g)
    BY DEF CreditDue, ReturnDue, GivesAccess, Busy
  <2> QED BY <2>1, <2>2 DEF BooksKept, InWork
<1>2. ASSUME pc'[h] \in {"idle", "decide", "mark", "renew", "endCalendar", "closePending"}
             \/ (pc'[h] = "saveCard" /\ verdict'[h] # "APPLIED")
      PROVE  InStep(h)' /\ ~Due'
  BY <1>2 DEF InStep, CreditDue, ReturnDue, GivesAccess
<1>3. Same => (Balanced(o)' <=> Balanced(o))
  BY DEF Balanced, Earned, TakenBack
<1>4. ASSUME Same, msg'[h] = msg[h], CreditDue(h), CreditDue(h)',
             pc'[h] \in {"activate", "open", "fold", "credit"},
             pc'[h] = "open" => RunningBeside(sub(h))' = {}
      PROVE  InStep(h)' /\ Due' /\ order(h)' = o
  BY <1>0, <1>4 DEF InStep, ReturnDue, order, sub, TakenBack
<1>5. ASSUME Same, msg'[h] = msg[h], ReturnDue(h), pc'[h] = "reverse"
      PROVE  InStep(h)' /\ Due' /\ order(h)' = o
  BY <1>0, <1>5 DEF InStep, ReturnDue, CreditDue, GivesAccess, order, Earned
<1>6. CASE Decide(h)
  <2>1. Same /\ msg' = msg /\ ~Due /\ pc[h] = "decide"
    BY <1>6 DEF Decide, dbVars, CreditDue, ReturnDue, GivesAccess
  <2>2. \/ pc'[h] \in {"mark", "endCalendar"}
        \/ pc'[h] = "transition" /\ seen'[h] = payments[o]
        \/ pc'[h] = "recordRenewal" /\ payments[o] = "NONE"
    BY <1>0, <1>6 DEF Decide, DecidePayment, DecideRenewal, FromCalendar, Found, Reject,
       Accept, Goto, order, HandlerTypeOK
  <2>3. InStep(h)'
    BY <1>2, <2>1, <2>2 DEF InStep, CreditDue, ReturnDue, GivesAccess, order
  <2> QED BY <1>1, <1>3, <2>1, <2>3
<1>7. CASE Transition(h)
  <2>0. pc[h] = "transition" /\ ledger' = ledger /\ msg' = msg /\ verdict'[h] = "APPLIED" /\ ~Due
    BY <1>0, <1>7 DEF Transition, HandlerTypeOK, CreditDue, ReturnDue, GivesAccess
  <2>1. payments[o] = seen[h] =>
          /\ payments'[o] = msg[h].status
          /\ CanTransition(payments[o], msg[h].status) /\ payments[o] \in PaymentStatuses
    BY <1>0, <1>7 DEF Transition, TransitionPayment, Holds, HandlerTypeOK, PaymentRowStates
  <2>2. pc'[h] \in AfterTransition(o, msg[h].status)
    BY <1>0, <1>7 DEF Transition, Goto, HandlerTypeOK
  <2>3. payments[o] = seen[h] =>
          /\ msg[h].status = "SUCCEEDED" => payments[o] \notin Captured
          /\ msg[h].status \in Reversing => payments[o] \in Captured
          /\ msg[h].status \notin Captured => payments[o] \notin Captured
    BY <2>1 DEF CanTransition, AllowedTransitions, PaymentStatuses, Captured, Reversing
  <2>4. order(h)' = o
    BY <2>0 DEF order
  <2>5. msg[h].status \in Captured => payments[o] = seen[h]
    BY <1>0, <2>0 DEF InStep
  <2>6. CASE msg[h].status = "SUCCEEDED"
    <3>0. payments[o] = seen[h]
      BY <2>5, <2>6 DEF Captured
    <3>1. pc'[h] \in {"saveCard", "activate", "grant"}
      BY <2>2, <2>6 DEF AfterTransition
    <3>2. CreditDue(h)' /\ ~ReturnDue(h)'
      BY <2>0, <3>1 DEF CreditDue, GivesAccess, ReturnDue
    <3>3. Share[o] > 0 => ~TakenBack(o)'
      BY <1>1, <2>0, <2>3, <2>6, <3>0 DEF Balanced, TakenBack, Captured
    <3> QED BY <2>1, <2>4, <2>6, <3>0, <3>1, <3>2, <3>3 DEF InStep, TakenBack
  <2>7. CASE msg[h].status \in Reversing
    <3>0. payments[o] = seen[h]
      BY <2>5, <2>7 DEF Captured
    <3>1. pc'[h] \in {"deactivate", "revoke"}
      BY <2>2, <2>7 DEF AfterTransition, Reversing
    <3>2. ReturnDue(h)' /\ ~CreditDue(h)'
      BY <3>1 DEF CreditDue, GivesAccess, ReturnDue
    <3>3. Share[o] > 0 => Earned(o)'
      BY <1>1, <2>0, <2>3, <2>7, <3>0 DEF Balanced, Earned
    <3> QED BY <2>1, <2>4, <2>7, <3>0, <3>1, <3>2, <3>3 DEF InStep, Earned
  <2>8. CASE msg[h].status \notin Captured
    <3>1. pc'[h] \in {"closePending", "mark"}
      BY <2>2, <2>8 DEF AfterTransition, Captured
    <3>2. CASE payments[o] = seen[h]
      BY <1>1, <1>2, <2>0, <2>1, <2>3, <2>8, <3>1, <3>2
         DEF Balanced, Earned, TakenBack, Captured
    <3>3. CASE payments[o] # seen[h]
      <4>1. Same
        BY <1>7, <2>0, <3>3 DEF Transition, TransitionPayment
      <4> QED BY <1>1, <1>2, <1>3, <2>0, <3>1, <4>1
    <3> QED BY <3>2, <3>3
  <2> QED BY <2>6, <2>7, <2>8 DEF Captured
<1>8. CASE SaveCard(h)
  <2>1. Same /\ msg' = msg /\ pc[h] = "saveCard" /\ verdict' = verdict
    BY <1>8 DEF SaveCard
  <2>2. CASE verdict[h] = "RENEWAL_APPLIED"
    <3>1. pc'[h] = "mark" /\ ~Due
      BY <1>0, <1>8, <2>1, <2>2 DEF SaveCard, Goto, HandlerTypeOK, CreditDue, GivesAccess,
         ReturnDue
    <3> QED BY <1>1, <1>2, <1>3, <2>1, <3>1
  <2>3. CASE verdict[h] = "APPLIED"
    <3>1. pc'[h] = "activate" /\ CreditDue(h) /\ CreditDue(h)'
      BY <1>0, <1>8, <2>1, <2>3 DEF SaveCard, Goto, HandlerTypeOK, CreditDue, GivesAccess
    <3> QED BY <1>4, <2>1, <3>1
  <2> QED BY <1>0, <2>1, <2>2, <2>3 DEF Holds
<1>9. CASE ReadRunning(h)
  <2>1. Same /\ msg' = msg /\ pc[h] = "activate" /\ subs' = subs
    BY <1>9 DEF ReadRunning, dbVars
  <2>2. \/ pc'[h] \in {"credit", "fold"}
        \/ pc'[h] = "open" /\ RunningBeside(sub(h)) = {}
    BY <1>0, <1>9 DEF ReadRunning, Goto, HandlerTypeOK
  <2>3. CreditDue(h) /\ CreditDue(h)'
    BY <2>1, <2>2 DEF CreditDue, GivesAccess
  <2>4. RunningBeside(sub(h))' = RunningBeside(sub(h))
    BY <2>1 DEF RunningBeside, sub
  <2> QED BY <1>4, <2>1, <2>2, <2>3, <2>4
<1>10. CASE Open(h)
  <2>1. pc[h] = "open" /\ ~ActiveKeyTaken(sub(h))
    BY <1>0, <1>10 DEF Open, InStep, ActiveKeyTaken
  <2>2. Same /\ msg' = msg /\ pc'[h] = "credit"
    BY <1>0, <1>10, <2>1 DEF Open, Goto, HandlerTypeOK
  <2>3. CreditDue(h) /\ CreditDue(h)'
    BY <2>1, <2>2 DEF CreditDue, GivesAccess
  <2> QED BY <1>4, <2>2, <2>3
<1>11. CASE Fold(h) \/ Grant(h)
  <2>1. Same /\ msg' = msg /\ pc[h] \in {"fold", "grant"} /\ pc'[h] = "credit"
    BY <1>0, <1>11 DEF Fold, Grant, Goto, HandlerTypeOK
  <2>2. CreditDue(h) /\ CreditDue(h)'
    BY <2>1 DEF CreditDue, GivesAccess
  <2> QED BY <1>4, <2>1, <2>2
<1>12. CASE Deactivate(h) \/ Revoke(h)
  <2>1. Same /\ msg' = msg /\ pc[h] \in {"deactivate", "revoke"} /\ pc'[h] = "reverse"
    BY <1>0, <1>12 DEF Deactivate, Revoke, Goto, HandlerTypeOK
  <2> QED BY <1>5, <2>1 DEF ReturnDue
<1>13. CASE ClosePending(h) \/ EndCalendar(h) \/ Mark(h)
  <2>1. /\ Same /\ pc[h] \in {"closePending", "endCalendar", "mark"}
        /\ pc'[h] \in {"idle", "mark"}
    BY <1>0, <1>13 DEF ClosePending, EndCalendar, Mark, Forget, Goto, HandlerTypeOK, dbVars
  <2>2. ~Due
    BY <2>1 DEF CreditDue, ReturnDue, GivesAccess
  <2> QED BY <1>1, <1>2, <1>3, <2>1, <2>2
<1>14. CASE Credit(h)
  <2>1. /\ pc[h] = "credit" /\ payments' = payments /\ CreditAnalystEarning(o)
        /\ pc'[h] \in {"mark", "renew"}
    BY <1>0, <1>14 DEF Credit, Goto, HandlerTypeOK
  <2>2. payments[o] = "SUCCEEDED" /\ (Share[o] > 0 => ~TakenBack(o))
    BY <1>0, <2>1 DEF InStep, CreditDue
  <2>3. Share[o] > 0 => Balanced(o)'
    BY <2>1, <2>2, Movements DEF Balanced, Captured, Reversing
  <2> QED BY <1>2, <2>1, <2>3
<1>15. CASE Reverse(h)
  <2>1. /\ pc[h] = "reverse" /\ payments' = payments /\ ReverseAnalystEarning(o)
        /\ pc'[h] = "mark"
    BY <1>0, <1>15 DEF Reverse, Goto, HandlerTypeOK
  <2>2. payments[o] \in Reversing /\ (Share[o] > 0 => Earned(o))
    BY <1>0, <2>1 DEF InStep, ReturnDue
  <2>3. Share[o] > 0 => Balanced(o)'
    BY <2>1, <2>2, Movements DEF Balanced, Captured
  <2> QED BY <1>2, <2>1, <2>3
<1>16. CASE RecordRenewal(h)
  <2>1. pc[h] = "recordRenewal" /\ payments[o] = "NONE" /\ ~Due
    BY <1>0, <1>16 DEF RecordRenewal, InStep, CreditDue, ReturnDue, GivesAccess
  <2>2. payments'[o] = "SUCCEEDED" /\ ledger' = ledger /\ msg' = msg /\ pc'[h] = "credit"
    BY <1>0, <1>16, <2>1 DEF RecordRenewal, RecordRenewalPayment, Found, Goto, HandlerTypeOK
  <2>3. Share[o] > 0 => ~TakenBack(o)'
    BY <1>1, <2>1, <2>2 DEF Balanced, TakenBack, Reversing
  <2>4. CreditDue(h)' /\ ~ReturnDue(h)' /\ order(h)' = o
    BY <2>2 DEF CreditDue, ReturnDue, GivesAccess, order
  <2> QED BY <2>2, <2>3, <2>4 DEF InStep, TakenBack
<1>17. CASE Renew(h)
  <2>1. Same /\ pc[h] = "renew" /\ ~Due
    BY <1>17 DEF Renew, Throw, dbVars, CreditDue, ReturnDue, GivesAccess
  <2>2. \/ pc'[h] \in {"idle", "mark"}
        \/ pc'[h] = "saveCard" /\ verdict'[h] = "RENEWAL_APPLIED"
    BY <1>0, <1>17 DEF Renew, Throw, Forget, Goto, HandlerTypeOK
  <2> QED BY <1>1, <1>2, <1>3, <2>1, <2>2
<1> QED
  BY <1>6, <1>7, <1>8, <1>9, <1>10, <1>11, <1>12, <1>13, <1>14, <1>15, <1>16, <1>17
     DEF HandlerStep


(* Books are kept by every step of the webhook but a crash.                               *)
LEMMA BooksKeptStep ==
  ASSUME TypeOK, Control, OneAtATime, BooksKept, [Next]_vars,
         ~ \E h \in Handlers : Crash(h)
  PROVE  BooksKept'
<1>1. ASSUME NEW h \in Handlers, HandlerStep(h) PROVE BooksKept'
  <2>1. ASSUME NEW g \in Handlers PROVE InStep(g)'
    <3>1. CASE g = h
      <4>1. order(h) \in Orders
        BY <1>1, WorksAlone, OwnOrderOnly
      <4> QED BY <1>1, <3>1, <4>1, InStepItself
    <3>2. CASE g # h
      BY <1>1, <3>2, InStepElsewhere DEF BooksKept
    <3> QED BY <3>1, <3>2
  <2>2. ASSUME NEW o \in Orders, Share[o] > 0 PROVE Balanced(o)' \/ InWork(o)'
    <3>1. CASE o = order(h)
      BY <1>1, <2>2, <3>1, InStepItself DEF InWork
    <3>2. CASE o # order(h)
      <4>1. Balanced(o)' <=> Balanced(o)
        BY <1>1, <3>2, OwnOrderOnly DEF Balanced
      <4>2. InWork(o) => InWork(o)'
        <5> SUFFICES ASSUME NEW g \in Handlers, CreditDue(g) \/ ReturnDue(g), order(g) = o
                     PROVE  InWork(o)'
          BY DEF InWork
        <5>1. g # h
          BY <3>2
        <5>2. pc'[g] = pc[g] /\ msg'[g] = msg[g] /\ verdict'[g] = verdict[g]
          BY <1>1, <5>1, OthersWait
        <5> QED BY <5>2 DEF InWork, CreditDue, ReturnDue, GivesAccess, order
      <4> QED BY <2>2, <4>1, <4>2 DEF BooksKept
    <3> QED BY <3>1, <3>2
  <2> QED BY <2>1, <2>2 DEF BooksKept
<1>2. CASE ~ \E h \in Handlers : HandlerStep(h)
  <2>1. /\ UNCHANGED dbVars
        /\ \A g \in Handlers :
             \/ /\ pc'[g] = pc[g] /\ msg'[g] = msg[g] /\ seen'[g] = seen[g]
                /\ verdict'[g] = verdict[g]
             \/ pc[g] = "idle" /\ pc'[g] = "decide"
    BY <1>2, QuietStep
  <2>2. ASSUME NEW g \in Handlers PROVE InStep(g)'
    BY <2>1 DEF BooksKept, InStep, CreditDue, ReturnDue, GivesAccess, order, sub,
       dbVars, Earned, TakenBack, RunningBeside
  <2>3. ASSUME NEW o PROVE (Balanced(o)' <=> Balanced(o)) /\ (InWork(o) => InWork(o)')
    BY <2>1 DEF Balanced, InWork, CreditDue, ReturnDue, GivesAccess, order, dbVars,
       Earned, TakenBack
  <2> QED BY <2>2, <2>3 DEF BooksKept
<1> QED BY <1>1, <1>2

LEMMA ReadsFreshStep ==
  ASSUME TypeOK, OneAtATime, ReadsFresh, [Next]_vars
  PROVE  ReadsFresh'
<1> SUFFICES ASSUME NEW g \in Handlers, pc'[g] = "transition"
             PROVE  seen'[g] = payments'[order(g)']
  BY DEF ReadsFresh
<1>0. HandlerTypeOK
  BY DEF TypeOK
<1>1. ASSUME NEW h \in Handlers, HandlerStep(h) PROVE seen'[g] = payments'[order(g)']
  <2>1. CASE g = h
    <3>1. Decide(h)
      BY <1>0, <1>1, <2>1 DEF HandlerStep, Transition, AfterTransition, SaveCard, ReadRunning,
         Open, Fold, Deactivate, ClosePending, Grant, Revoke, Credit, Reverse, EndCalendar,
         RecordRenewal, Renew, Mark, Throw, Forget, Goto, HandlerTypeOK
    <3> QED BY <1>0, <2>1, <3>1 DEF Decide, DecidePayment, DecideRenewal, Reject, Accept, Goto,
               order, dbVars, HandlerTypeOK
  <2>2. CASE g # h
    <3>1. pc[g] = "transition" /\ seen'[g] = seen[g] /\ order(g)' = order(g)
      BY <1>1, <2>2, OthersWait DEF order
    <3>2. order(g) \in Orders /\ order(g) # order(h)
      BY <1>1, <2>2, <3>1, WorksAlone, OwnOrderOnly DEF Busy
    <3>3. payments'[order(g)] = payments[order(g)]
      BY <1>1, <3>2, OwnOrderOnly
    <3> QED BY <3>1, <3>3 DEF ReadsFresh
  <2> QED BY <2>1, <2>2
<1>2. ASSUME NEW h \in Handlers, Crash(h) PROVE seen'[g] = payments'[order(g)']
  BY <1>0, <1>2 DEF Crash, Forget, Goto, HandlerTypeOK, ReadsFresh, order, dbVars
<1>3. CASE ~ \E h \in Handlers : HandlerStep(h) \/ Crash(h)
  BY <1>3, QuietStep DEF ReadsFresh, order, dbVars
<1> QED BY <1>1, <1>2, <1>3

LEMMA BooksStep ==
  ASSUME TypeOK, Control, OneAtATime, BooksHold, [Next]_vars,
         ~ \E h \in Handlers : Crash(h)
  PROVE  BooksHold'
BY BooksKeptStep, ReadsFreshStep DEF BooksHold

LEMMA BooksAtFirst ==
  ASSUME Init
  PROVE  BooksHold
BY DEF Init, BooksHold, BooksKept, ReadsFresh, InStep, CreditDue, ReturnDue, GivesAccess, Balanced, Earned,
       TakenBack, Captured, Reversing

(* No request has died as long as the count of the dead says so.           *)
LEMMA NobodyDies ==
  ASSUME TypeOK, [Next]_vars, crashes' = 0
  PROVE  crashes = 0 /\ ~ \E h \in Handlers : Crash(h)
<1>0. crashes \in Nat
  BY DEF TypeOK, AuditTypeOK
<1>1. ASSUME NEW h \in Handlers, Crash(h) PROVE FALSE
  BY <1>0, <1>1 DEF Crash
<1>2. crashes' = crashes
  BY <1>1, OwnOrderOnly DEF Next, GatewayStep, ReceiveDelivery, Tick, vars, auditVars
<1> QED BY <1>1, <1>2

LEMMA BooksAlways == Spec /\ []OneAtATime => [](crashes = 0 => BooksHold)
<1>1. Init => BooksHold
  BY BooksAtFirst
<1>2. TypeOK /\ Control /\ OneAtATime /\ (crashes = 0 => BooksHold) /\ [Next]_vars
        => (crashes = 0 => BooksHold)'
  BY BooksStep, NobodyDies
<1> QED BY <1>1, <1>2, Invariant, PTL DEF Spec

LEMMA LedgerAsStated == BooksKept => LedgerMatchesStatus
BY DEF BooksKept, LedgerMatchesStatus, AllIdle, InWork, Balanced, CreditDue, ReturnDue,
   GivesAccess

(* While no request has died, and if no two are under way for one matter at  *)
(* once, the analyst has been credited for exactly the captured payments and *)
(* charged back for exactly the returned ones whenever all requests have     *)
(* been answered: after any declines, repeats, refunds, disputes, renewals   *)
(* and forgeries, in any order.                                            *)
THEOREM LedgerSettled ==
  Spec /\ []OneAtATime => [](crashes = 0 => LedgerMatchesStatus)
<1>1. BooksHold => LedgerMatchesStatus
  BY LedgerAsStated DEF BooksHold
<1> QED BY <1>1, BooksAlways, PTL

-----------------------------------------------------------------------------
(* Access.  Each payment opens a row of its own, as startSubscriptionCheckout *)
(* creates one with every order; a calendar's renewals, which share the row  *)
(* of their checkout, are left out.                                        *)
OwnRows == \A o, p \in Orders : SubOf[o] # None /\ SubOf[o] = SubOf[p] => o = p

(* A row no payment has opened yet, and any may.                           *)
Fresh(s) ==
  \/ subs[s].status = "PENDING"
  \/ subs[s].status = "CANCELED" /\ subs[s].canceledBy = "PAYMENT"

Runs(s) == subs[s].status = "ACTIVE"

(* Captured, with the request that opens or folds its row still on the way. *)
OnItsWay(o) == \E h \in Handlers : GivesAccess(h) /\ order(h) = o

AccessHolds ==
  /\ \A o \in Orders :
       SubOf[o] # None /\ (payments[o] \notin Captured \/ OnItsWay(o)) => Fresh(SubOf[o])
  /\ \A s \in Subs : Runs(s) =>
       \E o \in Orders : /\ SubOf[o] = s
                         /\ \/ payments[o] = "SUCCEEDED"
                            \/ \E h \in Handlers : pc[h] = "deactivate" /\ order(h) = o
  /\ \A h \in Handlers : pc[h] = "fold" =>
       /\ fold[h].running \in RunningBeside(sub(h))
       /\ fold[h].base = subs[fold[h].running].end

(* A row as far as access goes.                                            *)
RowKept(s) ==
  /\ subs'[s].status = subs[s].status
  /\ subs'[s].canceledBy = subs[s].canceledBy
  /\ subs'[s].end = subs[s].end

(* What each statement writes into the rows it names, and that it leaves the *)
(* others alone.                                                           *)
LEMMA CardEffect ==
  ASSUME subs \in [Subs -> SubscriptionRow], NEW s, SaveCardToken(s), NEW x \in Subs
  PROVE  RowKept(x)
<1>1. PICK r \in SubscriptionRow : r = subs[x]
  OBVIOUS
<1>2. /\ [r EXCEPT !.card = TRUE].status = r.status
      /\ [r EXCEPT !.card = TRUE].canceledBy = r.canceledBy
      /\ [r EXCEPT !.card = TRUE].end = r.end
  BY DEF SubscriptionRow
<1>3. subs'[x] \in {r, [r EXCEPT !.card = TRUE]}
  BY <1>1 DEF SaveCardToken
<1> QED BY <1>1, <1>2, <1>3 DEF RowKept

LEMMA CloseEffect ==
  ASSUME subs \in [Subs -> SubscriptionRow], NEW s \in Subs, NEW guard,
         CloseSubscription(s, guard)
  PROVE  /\ \A x \in Subs \ {s} : subs'[x] = subs[x]
         /\ subs[s].status = guard =>
              subs'[s].status = "CANCELED" /\ subs'[s].canceledBy = "PAYMENT"
         /\ subs[s].status # guard => subs' = subs
<1>1. PICK r \in SubscriptionRow : r = subs[s]
  OBVIOUS
<1>2. PICK q : q = [r EXCEPT !.status = "CANCELED", !.canceledBy = "PAYMENT"]
  OBVIOUS
<1>3. q.status = "CANCELED" /\ q.canceledBy = "PAYMENT"
  BY <1>2 DEF SubscriptionRow
<1>4. subs[s].status = guard => subs' = [subs EXCEPT ![s] = q]
  BY <1>1, <1>2 DEF CloseSubscription
<1>5. subs[s].status # guard => subs' = subs
  BY DEF CloseSubscription
<1> QED BY <1>3, <1>4, <1>5

LEMMA OpenEffect ==
  ASSUME subs \in [Subs -> SubscriptionRow], NEW s \in Subs,
         Openable(s), OpenSubscription(s)
  PROVE  /\ \A x \in Subs \ {s} : subs'[x] = subs[x]
         /\ subs'[s].status = "ACTIVE" /\ subs'[s].end = now + Period
<1>1. PICK r \in SubscriptionRow : r = subs[s]
  OBVIOUS
<1>2. PICK n : n = now + Period
  OBVIOUS
<1>3. PICK q : q = [r EXCEPT !.status = "ACTIVE", !.end = n, !.canceledBy = "none",
                             !.cancelAtEnd = FALSE]
  OBVIOUS
<1>4. q.status = "ACTIVE" /\ q.end = n
  BY <1>3 DEF SubscriptionRow
<1>5. subs' = [subs EXCEPT ![s] = q]
  BY <1>1, <1>2, <1>3 DEF OpenSubscription
<1> QED BY <1>2, <1>4, <1>5

LEMMA FoldEffect ==
  ASSUME subs \in [Subs -> SubscriptionRow], NEW s \in Subs, NEW r \in Subs \ {s},
         NEW base, FoldSubscription(s, r, base)
  PROVE  /\ \A x \in Subs \ {s, r} : subs'[x] = subs[x]
         /\ subs'[s].status = "CANCELED" /\ subs'[s].end = subs[s].end
         /\ subs'[r].status = subs[r].status /\ subs'[r].canceledBy = subs[r].canceledBy
         /\ subs'[r].end = Later(base, now) + Period
<1>1. PICK row \in SubscriptionRow : row = subs[r]
  OBVIOUS
<1>2. PICK own \in SubscriptionRow : own = subs[s]
  OBVIOUS
<1>3. PICK n : n = Later(base, now) + Period
  OBVIOUS
<1>4. PICK q : q = [row EXCEPT !.end = n, !.cancelAtEnd = FALSE]
  OBVIOUS
<1>5. q.status = row.status /\ q.canceledBy = row.canceledBy /\ q.end = n
  BY <1>4 DEF SubscriptionRow
<1>6. PICK c : c = [own EXCEPT !.status = "CANCELED", !.canceledBy = "SYSTEM"]
  OBVIOUS
<1>7. c.status = "CANCELED" /\ c.end = own.end
  BY <1>6 DEF SubscriptionRow
<1>8. PICK gained : gained = [subs EXCEPT ![r] = q]
  OBVIOUS
<1>9. subs' = [gained EXCEPT ![s] = [gained[s] EXCEPT !.status = "CANCELED",
                                                      !.canceledBy = "SYSTEM"]]
  BY <1>1, <1>3, <1>4, <1>8 DEF FoldSubscription
<1>10. gained[s] = own
  BY <1>2, <1>8
<1>11. subs' = [gained EXCEPT ![s] = c]
  BY <1>6, <1>9, <1>10
<1> QED BY <1>1, <1>2, <1>3, <1>5, <1>7, <1>8, <1>11


(* The five things a port call can do to access: nothing; move its payment,   *)
(* from where the request then owes or ends access; open its row; add its    *)
(* period to a running one; close its row.                                 *)
KeepsAccess(h) ==
  /\ payments' = payments
  /\ GivesAccess(h)' <=> GivesAccess(h)
  /\ \A s \in Subs : RowKept(s)
  /\ pc[h] = "deactivate" => ~Runs(sub(h))

MovesPayment(h) ==
  /\ pc[h] = "transition"
  /\ CanTransition(payments[order(h)], msg[h].status)
  /\ payments[order(h)] \in PaymentStatuses
  /\ payments' = [payments EXCEPT ![order(h)] = msg[h].status]
  /\ GivesAccess(h)' <=> msg[h].status = "SUCCEEDED" /\ sub(h) # None
  /\ pc'[h] = "deactivate" <=> msg[h].status \in Reversing /\ sub(h) # None
  /\ msg'[h] = msg[h]
  /\ \A s \in Subs : RowKept(s)

OpensRow(h) ==
  /\ pc[h] = "open" /\ payments' = payments /\ ~GivesAccess(h)'
  /\ sub(h) \in Subs /\ RunningBeside(sub(h)) = {}
  /\ subs'[sub(h)].status = "ACTIVE" /\ subs'[sub(h)].end = now + Period
  /\ \A s \in Subs \ {sub(h)} : RowKept(s)

FoldsRow(h) ==
  LET r == fold[h].running IN
  /\ pc[h] = "fold" /\ payments' = payments /\ ~GivesAccess(h)'
  /\ sub(h) \in Subs /\ r \in RunningBeside(sub(h))
  /\ subs'[sub(h)].status = "CANCELED"
  /\ subs'[r].status = subs[r].status /\ subs'[r].canceledBy = subs[r].canceledBy
  /\ subs'[r].end = Later(subs[r].end, now) + Period
  /\ \A s \in Subs \ {sub(h), r} : RowKept(s)

ShutsRow(h) ==
  /\ payments' = payments /\ ~GivesAccess(h) /\ ~GivesAccess(h)'
  /\ sub(h) \in Subs
  /\ subs'[sub(h)].status = "CANCELED" /\ subs'[sub(h)].canceledBy = "PAYMENT"
  /\ \/ pc[h] = "deactivate"
     \/ pc[h] = "closePending" /\ ~Runs(sub(h))
  /\ \A s \in Subs \ {sub(h)} : RowKept(s)

(* Where rows are not shared there are no renewals.                        *)
LEMMA NoRenewals ==
  ASSUME OwnRows, NEW o \in Orders
  PROVE  ~IsRenewal(o)
<1> SUFFICES ASSUME ParentOf[o] # None PROVE FALSE
  BY DEF IsRenewal
<1>1. /\ ParentOf[o] \in Orders /\ ParentOf[ParentOf[o]] = None
      /\ SubOf[o] = SubOf[ParentOf[o]] /\ SubOf[o] # None
  BY OrderAssumption, RenewalAssumption
<1> QED BY <1>1 DEF OwnRows

LEMMA AccessCases ==
  ASSUME TypeOK, Control, OneAtATime, OwnRows, BooksHold, AccessHolds,
         NEW h \in Handlers, HandlerStep(h)
  PROVE  \/ KeepsAccess(h) \/ MovesPayment(h) \/ OpensRow(h) \/ FoldsRow(h) \/ ShutsRow(h)
<1>0. /\ InStep(h) /\ Holds(h) /\ Busy(h) /\ HandlerTypeOK
      /\ payments \in [Orders -> PaymentRowStates]
      /\ subs \in [Subs -> SubscriptionRow]
      /\ order(h) \in Orders
      /\ pc[h] = "transition" => seen[h] = payments[order(h)]
  BY OwnOrderOnly, WorksAlone DEF BooksHold, BooksKept, ReadsFresh, Control, TypeOK,
     StoreTypeOK
<1>1. pc[h] \notin RenewalSteps
  BY <1>0, NoRenewals DEF Holds
<1>2. sub(h) = SubOf[order(h)] /\ (sub(h) # None => sub(h) \in Subs)
  BY <1>0, OrderAssumption DEF sub, order
<1>3. subs' = subs => \A s \in Subs : RowKept(s)
  BY DEF RowKept
<1>4. CASE Decide(h)
  <2>1. payments' = payments /\ subs' = subs /\ pc[h] = "decide" /\ msg' = msg
    BY <1>4 DEF Decide, dbVars
  <2>2. pc'[h] \in {"mark", "transition", "endCalendar", "recordRenewal"}
    BY <1>0, <1>4 DEF Decide, DecidePayment, DecideRenewal, Reject, Accept, Goto, HandlerTypeOK
  <2> QED BY <1>3, <2>1, <2>2 DEF KeepsAccess, GivesAccess
<1>5. CASE Transition(h)
  <2>1. /\ pc[h] = "transition" /\ payments[order(h)] = seen[h] /\ subs' = subs
        /\ msg' = msg /\ verdict'[h] = "APPLIED"
        /\ payments' = [payments EXCEPT ![order(h)] = msg[h].status]
        /\ CanTransition(payments[order(h)], msg[h].status)
        /\ payments[order(h)] \in PaymentStatuses
    BY <1>0, <1>5 DEF Transition, TransitionPayment, InStep, Holds, HandlerTypeOK,
       PaymentRowStates
  <2>2. pc'[h] \in AfterTransition(order(h), msg[h].status)
    BY <1>0, <1>5 DEF Transition, Goto, HandlerTypeOK
  <2>3. CASE msg[h].status = "SUCCEEDED"
    <3>1. pc'[h] \in IF sub(h) # None THEN {"saveCard", "activate"} ELSE {"grant"}
      BY <1>2, <2>2, <2>3 DEF AfterTransition
    <3>2. GivesAccess(h)' <=> sub(h) # None
      BY <2>1, <3>1 DEF GivesAccess
    <3> QED BY <1>3, <2>1, <2>3, <3>1, <3>2 DEF MovesPayment, Reversing
  <2>4. CASE msg[h].status \in Reversing
    <3>1. pc'[h] \in IF sub(h) # None THEN {"deactivate"} ELSE {"revoke"}
      BY <1>2, <2>2, <2>4 DEF AfterTransition, Reversing
    <3>2. ~GivesAccess(h)'
      BY <3>1 DEF GivesAccess
    <3> QED BY <1>3, <2>1, <2>4, <3>1, <3>2 DEF MovesPayment, Reversing
  <2>5. CASE msg[h].status \notin Captured
    <3>1. pc'[h] \in {"closePending", "mark"}
      BY <2>2, <2>5 DEF AfterTransition, Captured
    <3>2. ~GivesAccess(h)'
      BY <3>1 DEF GivesAccess
    <3> QED BY <1>3, <2>1, <2>5, <3>1, <3>2 DEF MovesPayment, Captured
  <2> QED BY <2>3, <2>4, <2>5 DEF Captured
<1>6. CASE SaveCard(h)
  <2>1. payments' = payments /\ SaveCardToken(sub(h)) /\ pc[h] = "saveCard" /\ verdict' = verdict
    BY <1>6 DEF SaveCard
  <2>2. \A s \in Subs : RowKept(s)
    BY <1>0, <2>1, CardEffect
  <2>3. GivesAccess(h)' <=> GivesAccess(h)
    BY <1>0, <1>6, <2>1 DEF SaveCard, Goto, HandlerTypeOK, Holds, GivesAccess
  <2> QED BY <2>1, <2>2, <2>3 DEF KeepsAccess
<1>7. CASE ReadRunning(h)
  <2>1. payments' = payments /\ subs' = subs /\ pc[h] = "activate"
    BY <1>7 DEF ReadRunning, dbVars
  <2>2. Fresh(sub(h))
    <3>1. OnItsWay(order(h)) /\ sub(h) # None
      BY <1>0, <2>1 DEF OnItsWay, GivesAccess, Holds, SubscriptionSteps
    <3> QED BY <1>0, <1>2, <3>1 DEF AccessHolds
  <2>3. pc'[h] \in {"open", "fold"}
    BY <1>0, <1>7, <2>2 DEF ReadRunning, Goto, HandlerTypeOK, Fresh
  <2> QED BY <1>3, <2>1, <2>3 DEF KeepsAccess, GivesAccess
<1>8. CASE Open(h)
  <2>1. pc[h] = "open" /\ RunningBeside(sub(h)) = {}
    BY <1>0, <1>8 DEF Open, InStep
  <2>2. sub(h) \in Subs /\ Fresh(sub(h))
    <3>1. OnItsWay(order(h)) /\ sub(h) # None
      BY <1>0, <2>1 DEF OnItsWay, GivesAccess, Holds, SubscriptionSteps
    <3> QED BY <1>0, <1>2, <3>1 DEF AccessHolds
  <2>3. payments' = payments /\ OpenSubscription(sub(h)) /\ pc'[h] = "credit"
    BY <1>0, <1>8, <2>1 DEF Open, ActiveKeyTaken, Goto, HandlerTypeOK
  <2>4. Openable(sub(h))
    BY <2>2 DEF Fresh, Openable
  <2>5. /\ \A x \in Subs \ {sub(h)} : subs'[x] = subs[x]
        /\ subs'[sub(h)].status = "ACTIVE" /\ subs'[sub(h)].end = now + Period
    BY <1>0, <2>2, <2>3, <2>4, OpenEffect
  <2> QED BY <2>1, <2>2, <2>3, <2>5 DEF OpensRow, RowKept, GivesAccess
<1>9. CASE Fold(h)
  <2>1. /\ pc[h] = "fold" /\ payments' = payments /\ msg' = msg /\ pc'[h] = "credit"
        /\ FoldSubscription(sub(h), fold[h].running, fold[h].base)
    BY <1>0, <1>9 DEF Fold, Goto, HandlerTypeOK
  <2>2. sub(h) \in Subs
    BY <1>0, <1>2, <2>1 DEF Holds, SubscriptionSteps
  <2>3. /\ fold[h].running \in RunningBeside(sub(h))
        /\ fold[h].base = subs[fold[h].running].end
    BY <2>1 DEF AccessHolds
  <2>4. fold[h].running \in Subs \ {sub(h)} /\ subs[fold[h].running].status = "ACTIVE"
    BY <2>3 DEF RunningBeside
  <2>5. PICK r \in Subs \ {sub(h)} : r = fold[h].running
    BY <2>4
  <2>6. PICK s \in Subs : s = sub(h)
    BY <2>2
  <2>7. /\ \A x \in Subs \ {s, r} : subs'[x] = subs[x]
        /\ subs'[s].status = "CANCELED"
        /\ subs'[r].status = subs[r].status /\ subs'[r].canceledBy = subs[r].canceledBy
        /\ subs'[r].end = Later(subs[r].end, now) + Period
    BY <1>0, <2>1, <2>3, <2>5, <2>6, FoldEffect
  <2>8. \A x \in Subs \ {sub(h), fold[h].running} : RowKept(x)
    BY <2>5, <2>6, <2>7 DEF RowKept
  <2>9. ~GivesAccess(h)'
    BY <2>1 DEF GivesAccess
  <2> QED
    BY <2>1, <2>2, <2>3, <2>5, <2>6, <2>7, <2>8, <2>9 DEF FoldsRow
<1>10. CASE Deactivate(h)
  <2>1. /\ pc[h] = "deactivate" /\ payments' = payments /\ msg' = msg /\ pc'[h] = "reverse"
        /\ CloseSubscription(sub(h), "ACTIVE")
    BY <1>0, <1>10 DEF Deactivate, DeactivateSubscription, Goto, HandlerTypeOK
  <2>2. sub(h) \in Subs
    BY <1>0, <1>2, <2>1 DEF Holds, SubscriptionSteps
  <2>3. ~GivesAccess(h) /\ ~GivesAccess(h)'
    BY <2>1 DEF GivesAccess
  <2>4. CASE subs[sub(h)].status = "ACTIVE"
    <3>1. /\ \A x \in Subs \ {sub(h)} : subs'[x] = subs[x]
          /\ subs'[sub(h)].status = "CANCELED" /\ subs'[sub(h)].canceledBy = "PAYMENT"
      BY <1>0, <2>1, <2>2, <2>4, CloseEffect
    <3> QED BY <2>1, <2>2, <2>3, <3>1 DEF ShutsRow, Runs, RowKept
  <2>5. CASE subs[sub(h)].status # "ACTIVE"
    <3>1. subs' = subs
      BY <1>0, <2>1, <2>2, <2>5, CloseEffect
    <3> QED BY <1>3, <2>1, <2>3, <2>5, <3>1 DEF KeepsAccess, Runs
  <2> QED BY <2>4, <2>5
<1>11. CASE ClosePending(h)
  <2>1. /\ pc[h] = "closePending" /\ payments' = payments /\ msg' = msg /\ pc'[h] = "mark"
        /\ CloseSubscription(sub(h), "PENDING")
    BY <1>0, <1>11 DEF ClosePending, ClosePendingSubscription, Goto, HandlerTypeOK
  <2>2. sub(h) \in Subs
    BY <1>0, <1>2, <2>1 DEF Holds, SubscriptionSteps
  <2>3. ~GivesAccess(h) /\ ~GivesAccess(h)'
    BY <2>1 DEF GivesAccess
  <2>4. CASE subs[sub(h)].status = "PENDING"
    <3>1. /\ \A x \in Subs \ {sub(h)} : subs'[x] = subs[x]
          /\ subs'[sub(h)].status = "CANCELED" /\ subs'[sub(h)].canceledBy = "PAYMENT"
      BY <1>0, <2>1, <2>2, <2>4, CloseEffect
    <3> QED BY <2>1, <2>2, <2>3, <2>4, <3>1 DEF ShutsRow, Runs, RowKept
  <2>5. CASE subs[sub(h)].status # "PENDING"
    <3>1. subs' = subs
      BY <1>0, <2>1, <2>2, <2>5, CloseEffect
    <3> QED BY <1>3, <2>1, <2>3, <3>1 DEF KeepsAccess
  <2> QED BY <2>4, <2>5
<1>12. CASE Grant(h) \/ Revoke(h) \/ Credit(h) \/ Reverse(h) \/ Mark(h)
  <2>1. /\ payments' = payments /\ subs' = subs
        /\ pc[h] \in {"grant", "revoke", "credit", "reverse", "mark"}
        /\ pc'[h] \in {"idle", "mark", "credit", "reverse", "renew"}
    BY <1>0, <1>12 DEF Grant, Revoke, Credit, Reverse, Mark, Forget, Goto, HandlerTypeOK, dbVars
  <2> QED BY <1>3, <2>1 DEF KeepsAccess, GivesAccess
<1>13. CASE EndCalendar(h) \/ RecordRenewal(h) \/ Renew(h)
  BY <1>1, <1>13 DEF EndCalendar, RecordRenewal, Renew, RenewalSteps
<1> QED
  BY <1>4, <1>5, <1>6, <1>7, <1>8, <1>9, <1>10, <1>11, <1>12, <1>13 DEF HandlerStep


(* Who has an order in hand changes for the request's own order only.      *)
LEMMA HandsApart ==
  ASSUME TypeOK, OneAtATime, NEW h \in Handlers, HandlerStep(h), NEW o \in Orders
  PROVE  /\ o # order(h) => (OnItsWay(o)' <=> OnItsWay(o))
         /\ o = order(h) => (OnItsWay(o) <=> GivesAccess(h))
         /\ o = order(h) => (OnItsWay(o)' <=> GivesAccess(h)')
<1>1. Busy(h) /\ order(h) \in Orders
  BY OwnOrderOnly, WorksAlone
<1>2. \A g \in Handlers : GivesAccess(g) => Busy(g)
  BY DEF GivesAccess, Busy
<1>3. ASSUME NEW g \in Handlers, g # h
      PROVE  (GivesAccess(g)' <=> GivesAccess(g)) /\ order(g)' = order(g)
  BY <1>3, OthersWait DEF GivesAccess, order
<1>4. GivesAccess(h)' => order(h)' = order(h)
  BY OwnOrderOnly DEF GivesAccess, order
<1>5. \A g \in Handlers : g # h /\ GivesAccess(g) => order(g) # order(h)
  BY <1>1, <1>2, WorksAlone
<1>6. ASSUME o # order(h) PROVE OnItsWay(o)' <=> OnItsWay(o)
  <2>1. ASSUME OnItsWay(o) PROVE OnItsWay(o)'
    <3>1. PICK g \in Handlers : GivesAccess(g) /\ order(g) = o
      BY <2>1 DEF OnItsWay
    <3> QED BY <1>3, <1>6, <3>1 DEF OnItsWay
  <2>2. ASSUME OnItsWay(o)' PROVE OnItsWay(o)
    <3>1. PICK g \in Handlers : GivesAccess(g)' /\ order(g)' = o
      BY <2>2 DEF OnItsWay
    <3> QED BY <1>3, <1>4, <1>6, <3>1 DEF OnItsWay
  <2> QED BY <2>1, <2>2
<1>7. o = order(h) => (OnItsWay(o) <=> GivesAccess(h))
  BY <1>5 DEF OnItsWay
<1>8. ASSUME o = order(h) PROVE OnItsWay(o)' <=> GivesAccess(h)'
  <2>1. ASSUME OnItsWay(o)' PROVE GivesAccess(h)'
    <3>1. PICK g \in Handlers : GivesAccess(g)' /\ order(g)' = o
      BY <2>1 DEF OnItsWay
    <3> QED BY <1>3, <1>5, <1>8, <3>1
  <2> QED BY <1>4, <1>8, <2>1 DEF OnItsWay
<1> QED BY <1>6, <1>7, <1>8

(* A port call keeps the rows of every other plan.                         *)
LEMMA PlansApart ==
  ASSUME TypeOK, Control, OneAtATime, OwnRows, BooksHold, AccessHolds,
         NEW h \in Handlers, HandlerStep(h), NEW s \in Subs,
         sub(h) = None \/ PlanOf[s] # PlanOf[sub(h)]
  PROVE  RowKept(s)
<1>1. sub(h) \in Subs => s # sub(h)
  BY NoneAssumption
<1>2. FoldsRow(h) => s # fold[h].running
  BY NoneAssumption DEF FoldsRow, RunningBeside
<1> QED
  BY <1>1, <1>2, AccessCases DEF KeepsAccess, MovesPayment, OpensRow, FoldsRow, ShutsRow

(* Access is kept by every port call.                                      *)
LEMMA AccessCall ==
  ASSUME TypeOK, Control, OneAtATime, OwnRows, BooksHold, AccessHolds,
         NEW h \in Handlers, HandlerStep(h)
  PROVE  AccessHolds'
<1>0. /\ Busy(h) /\ order(h) \in Orders /\ sub(h) = SubOf[order(h)]
      /\ HandlerTypeOK /\ InStep(h)
      /\ payments \in [Orders -> PaymentRowStates]
  BY OwnOrderOnly, WorksAlone DEF TypeOK, StoreTypeOK, sub, order, BooksHold, BooksKept
<1>1. KeepsAccess(h) \/ MovesPayment(h) \/ OpensRow(h) \/ FoldsRow(h) \/ ShutsRow(h)
  BY AccessCases
<1>2. ASSUME NEW o \in Orders, SubOf[o] # None, payments'[o] \notin Captured \/ OnItsWay(o)'
      PROVE  Fresh(SubOf[o])'
  <2>1. PICK s \in Subs : s = SubOf[o]
    BY <1>2, OrderAssumption
  <2>2. s = sub(h) => o = order(h)
    BY <1>0, <1>2, <2>1 DEF OwnRows
  <2>3. RowKept(s) /\ Fresh(s) => Fresh(s)'
    BY DEF RowKept, Fresh
  <2>4. payments[o] \notin Captured \/ OnItsWay(o) => Fresh(s)
    BY <1>2, <2>1 DEF AccessHolds
  <2>5. CASE KeepsAccess(h)
    BY <1>2, <2>1, <2>3, <2>4, <2>5, HandsApart DEF KeepsAccess
  <2>6. CASE MovesPayment(h)
    <3>1. o # order(h) => payments'[o] = payments[o]
      BY <1>0, <2>6 DEF MovesPayment
    <3>2. o = order(h) => payments'[o] = msg[h].status
      BY <1>0, <2>6 DEF MovesPayment
    <3>3. /\ msg[h].status \notin Captured => payments[order(h)] \notin Captured
          /\ msg[h].status = "SUCCEEDED" => payments[order(h)] \notin Captured
      BY <2>6 DEF MovesPayment, CanTransition, AllowedTransitions, PaymentStatuses,
         Captured, Reversing
    <3>4. payments[o] \notin Captured \/ OnItsWay(o)
      BY <1>2, <2>6, <3>1, <3>2, <3>3, HandsApart DEF MovesPayment
    <3> QED BY <2>1, <2>3, <2>4, <2>6, <3>4 DEF MovesPayment
  <2>7. CASE OpensRow(h)
    <3>1. pc[h] = "open" /\ payments[order(h)] \in Captured
      BY <1>0, <2>7 DEF OpensRow, InStep, CreditDue, GivesAccess, Captured
    <3>2. o # order(h)
      BY <1>2, <2>7, <3>1, HandsApart DEF OpensRow
    <3>3. payments[o] \notin Captured \/ OnItsWay(o)
      BY <1>2, <2>7, <3>2, HandsApart DEF OpensRow
    <3> QED BY <2>1, <2>2, <2>3, <2>4, <2>7, <3>2, <3>3 DEF OpensRow
  <2>8. CASE FoldsRow(h)
    <3>1. pc[h] = "fold" /\ payments[order(h)] \in Captured
      BY <1>0, <2>8 DEF FoldsRow, InStep, CreditDue, GivesAccess, Captured
    <3>2. o # order(h)
      BY <1>2, <2>8, <3>1, HandsApart DEF FoldsRow
    <3>3. payments[o] \notin Captured \/ OnItsWay(o)
      BY <1>2, <2>8, <3>2, HandsApart DEF FoldsRow
    <3>4. s # fold[h].running
      BY <2>4, <2>8, <3>3 DEF FoldsRow, RunningBeside, Fresh
    <3> QED BY <2>1, <2>2, <2>3, <2>4, <2>8, <3>2, <3>3, <3>4 DEF FoldsRow
  <2>9. CASE ShutsRow(h)
    <3>1. s = sub(h) => Fresh(s)'
      BY <2>1, <2>9 DEF ShutsRow, Fresh
    <3>2. payments[o] \notin Captured \/ OnItsWay(o)
      BY <1>2, <2>9, HandsApart DEF ShutsRow
    <3> QED BY <2>1, <2>3, <2>4, <2>9, <3>1, <3>2 DEF ShutsRow
  <2> QED BY <1>1, <2>5, <2>6, <2>7, <2>8, <2>9
<1>3. ASSUME NEW s \in Subs, Runs(s)'
      PROVE  \E o \in Orders : /\ SubOf[o] = s
                               /\ \/ payments'[o] = "SUCCEEDED"
                                  \/ \E g \in Handlers : pc'[g] = "deactivate" /\ order(g)' = o
  <2>1. CASE ~Runs(s)
    <3>1. OpensRow(h) /\ s = sub(h)
      BY <1>1, <1>3, <2>1
         DEF KeepsAccess, MovesPayment, OpensRow, FoldsRow, ShutsRow, RowKept, Runs,
             RunningBeside
    <3>2. payments[order(h)] = "SUCCEEDED"
      BY <1>0, <3>1 DEF OpensRow, InStep, CreditDue, GivesAccess
    <3> QED BY <1>0, <3>1, <3>2 DEF OpensRow
  <2>2. CASE Runs(s)
    <3>1. PICK o \in Orders :
            /\ SubOf[o] = s
            /\ \/ payments[o] = "SUCCEEDED"
               \/ \E g \in Handlers : pc[g] = "deactivate" /\ order(g) = o
      BY <2>2 DEF AccessHolds
    <3>2. s # None
      BY NoneAssumption
    <3>3. ASSUME payments[o] = "SUCCEEDED", payments'[o] # "SUCCEEDED"
          PROVE  pc'[h] = "deactivate" /\ order(h)' = o
      <4>1. MovesPayment(h) /\ o = order(h)
        BY <1>0, <1>1, <3>3 DEF KeepsAccess, MovesPayment, OpensRow, FoldsRow, ShutsRow
      <4>2. msg[h].status \in Reversing
        BY <3>3, <4>1 DEF MovesPayment, CanTransition, AllowedTransitions, Reversing
      <4> QED BY <1>0, <3>1, <3>2, <4>1, <4>2 DEF MovesPayment, order
    <3>4. ASSUME NEW g \in Handlers, pc[g] = "deactivate", order(g) = o
          PROVE  pc'[g] = "deactivate" /\ order(g)' = o
      <4>1. CASE g # h
        BY <3>4, <4>1, OthersWait DEF order
      <4>2. CASE g = h
        <5>1. sub(h) = s
          BY <1>0, <3>1, <3>4, <4>2
        <5>2. KeepsAccess(h) \/ ShutsRow(h)
          BY <1>1, <3>4, <4>2 DEF MovesPayment, OpensRow, FoldsRow
        <5> QED BY <1>3, <2>2, <3>4, <4>2, <5>1, <5>2 DEF KeepsAccess, ShutsRow, Runs
      <4> QED BY <4>1, <4>2
    <3> QED BY <3>1, <3>3, <3>4
  <2> QED BY <2>1, <2>2
<1>4. ASSUME NEW g \in Handlers, pc'[g] = "fold"
      PROVE  /\ fold'[g].running \in RunningBeside(sub(g))'
             /\ fold'[g].base = subs'[fold'[g].running].end
  <2>1. CASE g = h
    <3>0. pc \in [Handlers -> Steps] /\ pc'[h] = "fold"
      BY <1>0, <1>4, <2>1 DEF HandlerTypeOK
    <3>1. ReadRunning(h)
      <4>1. ~Transition(h)
        <5>1. "fold" \notin AfterTransition(order(h), msg[h].status)
          BY DEF AfterTransition
        <5> QED BY <3>0, <5>1 DEF Transition, Goto
      <4>2. ~Decide(h)
        BY <3>0 DEF Decide, DecidePayment, DecideRenewal, Reject, Accept, Goto
      <4>3. ~Open(h) /\ ~Renew(h) /\ ~Mark(h)
        BY <3>0 DEF Open, Renew, Mark, Throw, Forget, Goto
      <4>4. ~SaveCard(h) /\ ~Fold(h) /\ ~Deactivate(h) /\ ~ClosePending(h)
        BY <3>0 DEF SaveCard, Fold, Deactivate, ClosePending, Goto
      <4>5. ~Grant(h) /\ ~Revoke(h) /\ ~Credit(h) /\ ~Reverse(h)
        BY <3>0 DEF Grant, Revoke, Credit, Reverse, Goto
      <4>6. ~EndCalendar(h) /\ ~RecordRenewal(h)
        BY <3>0 DEF EndCalendar, RecordRenewal, Goto
      <4> QED BY <4>1, <4>2, <4>3, <4>4, <4>5, <4>6 DEF HandlerStep
    <3>2. PICK r \in RunningBeside(sub(h)) :
            fold' = [fold EXCEPT ![h] = [running |-> r, base |-> subs[r].end]]
      <4>1. ~Goto(h, "credit") /\ ~Goto(h, "open")
        BY <3>0 DEF Goto
      <4> QED BY <3>1, <4>1 DEF ReadRunning
    <3>3. fold'[h] = [running |-> r, base |-> subs[r].end]
      BY <1>0, <3>2 DEF HandlerTypeOK
    <3>4. subs' = subs /\ msg' = msg
      BY <3>1 DEF ReadRunning, dbVars
    <3> QED BY <2>1, <3>2, <3>3, <3>4 DEF RunningBeside, sub
  <2>2. CASE g # h
    <3>1. pc[g] = "fold" /\ fold'[g] = fold[g] /\ msg'[g] = msg[g]
      BY <1>4, <2>2, OthersWait
    <3>2. /\ fold[g].running \in RunningBeside(sub(g))
          /\ fold[g].base = subs[fold[g].running].end
          /\ sub(g) # None
      BY <3>1 DEF AccessHolds, Control, Holds, SubscriptionSteps
    <3>3. PICK r \in Subs : /\ r = fold[g].running
                            /\ r # sub(g) /\ PlanOf[r] = PlanOf[sub(g)] /\ Runs(r)
      BY <3>2 DEF RunningBeside, Runs
    <3>4. sub(h) = None \/ PlanOf[r] # PlanOf[sub(h)]
      <4>1. Busy(g) /\ ~SameMatter(order(g), order(h))
        BY <1>0, <2>2, <3>1, WorksAlone DEF Busy
      <4> QED BY <3>2, <3>3, <4>1 DEF SameMatter, sub, order
    <3>5. RowKept(r)
      BY <3>4, PlansApart
    <3>6. r \in RunningBeside(sub(g))'
      BY <3>1, <3>3, <3>5 DEF RunningBeside, RowKept, Runs, sub
    <3> QED BY <3>1, <3>2, <3>3, <3>5, <3>6 DEF RowKept
  <2> QED BY <2>1, <2>2
<1> QED BY <1>2, <1>3, <1>4 DEF AccessHolds


(* A ticket that is held is held on a payment of its own that stands, and a  *)
(* payment that stands has its ticket, or a request is about to see to it;  *)
(* and a ticket is revoked only where one of its payments was returned.     *)
TicketsHold ==
  /\ \A t \in Tickets : purchases[t].payment # None =>
       LET o == purchases[t].payment IN
       /\ TicketOf[o] = t
       /\ \/ purchases[t].revoked
          \/ payments[o] = "SUCCEEDED"
          \/ \E h \in Handlers : pc[h] = "revoke" /\ order(h) = o
  /\ \A o \in Orders : TicketOf[o] # None /\ payments[o] = "SUCCEEDED" =>
       \/ purchases[TicketOf[o]].payment # None
       \/ \E h \in Handlers : pc[h] = "grant" /\ order(h) = o
  /\ \A t \in Tickets : purchases[t].revoked => ~UndisturbedTicket(t)

LEMMA RevokeEffect ==
  ASSUME purchases \in [Tickets -> PurchaseRow], NEW o, RevokeTicketPurchase(o),
         NEW t \in Tickets
  PROVE  /\ purchases'[t].payment = purchases[t].payment
         /\ t # TicketOf[o] => purchases'[t].revoked = purchases[t].revoked
         /\ t = TicketOf[o] /\ purchases[t].payment # None => purchases'[t].revoked
         /\ purchases[t].revoked => purchases'[t].revoked
<1>1. PICK r \in PurchaseRow : r = purchases[t]
  OBVIOUS
<1>2. PICK q : q = [r EXCEPT !.revoked = TRUE]
  OBVIOUS
<1>3. q.payment = r.payment /\ q.revoked = TRUE
  BY <1>2 DEF PurchaseRow
<1>4. CASE purchases[TicketOf[o]].payment # None
  <2>1. purchases' = [purchases EXCEPT ![TicketOf[o]].revoked = TRUE]
    BY <1>4 DEF RevokeTicketPurchase
  <2>2. purchases'[t] = IF t = TicketOf[o] THEN q ELSE r
    BY <1>1, <1>2, <2>1
  <2> QED BY <1>1, <1>3, <2>2
<1>5. CASE purchases[TicketOf[o]].payment = None
  BY <1>5 DEF RevokeTicketPurchase
<1> QED BY <1>4, <1>5

(* What a port call does to its payment, and where it goes then.           *)
LEMMA PaymentMoves ==
  ASSUME TypeOK, Control, BooksHold, NEW h \in Handlers, HandlerStep(h)
  PROVE  \/ payments' = payments /\ ~Transition(h)
         \/ RecordRenewal(h) /\ IsRenewal(order(h))
         \/ /\ Transition(h) /\ msg' = msg
            /\ payments' = [payments EXCEPT ![order(h)] = msg[h].status]
            /\ payments[order(h)] \in PaymentStatuses
            /\ CanTransition(payments[order(h)], msg[h].status)
            /\ pc'[h] \in AfterTransition(order(h), msg[h].status)
<1>0. /\ Holds(h) /\ HandlerTypeOK
      /\ pc[h] = "transition" => seen[h] = payments[order(h)]
  BY DEF BooksHold, ReadsFresh, Control, TypeOK
<1>1. CASE Transition(h)
  BY <1>0, <1>1 DEF Transition, TransitionPayment, InStep, Holds, HandlerTypeOK,
     PaymentRowStates, Goto
<1>2. CASE RecordRenewal(h)
  BY <1>0, <1>2 DEF RecordRenewal, Holds, RenewalSteps
<1>3. CASE ~Transition(h) /\ ~RecordRenewal(h)
  BY <1>3 DEF HandlerStep, Decide, SaveCard, ReadRunning, Open, Fold, Deactivate,
     ClosePending, Grant, Revoke, Credit, Reverse, EndCalendar, Renew, Mark, Throw, dbVars
<1> QED BY <1>1, <1>2, <1>3

(* A return is never taken back.                                           *)
LEMMA ReturnsStay ==
  ASSUME TypeOK, Control, BooksHold, NEW h \in Handlers, HandlerStep(h),
         NEW o \in Orders, payments[o] \in Reversing
  PROVE  payments'[o] \in Reversing
<1>0. payments \in [Orders -> PaymentRowStates]
  BY DEF TypeOK, StoreTypeOK
<1>1. CASE payments' = payments
  BY <1>1
<1>2. CASE RecordRenewal(h)
  BY <1>0, <1>2 DEF RecordRenewal, RecordRenewalPayment, Reversing
<1>3. CASE /\ payments' = [payments EXCEPT ![order(h)] = msg[h].status]
           /\ CanTransition(payments[order(h)], msg[h].status)
  BY <1>0, <1>3 DEF CanTransition, AllowedTransitions, Reversing
<1> QED BY <1>1, <1>2, <1>3, PaymentMoves

LEMMA TicketsCall ==
  ASSUME TypeOK, Control, OneAtATime, BooksHold, TicketsHold,
         NEW h \in Handlers, HandlerStep(h)
  PROVE  TicketsHold'
<1>0. /\ Busy(h) /\ order(h) \in Orders /\ HandlerTypeOK /\ InStep(h)
      /\ payments \in [Orders -> PaymentRowStates]
      /\ purchases \in [Tickets -> PurchaseRow]
  BY OwnOrderOnly, WorksAlone DEF TypeOK, StoreTypeOK, BooksHold, BooksKept
<1>1. /\ \/ payments' = payments /\ ~Transition(h)
         \/ RecordRenewal(h) /\ IsRenewal(order(h))
         \/ /\ Transition(h) /\ msg' = msg
            /\ payments' = [payments EXCEPT ![order(h)] = msg[h].status]
            /\ payments[order(h)] \in PaymentStatuses
            /\ CanTransition(payments[order(h)], msg[h].status)
            /\ pc'[h] \in AfterTransition(order(h), msg[h].status)
      /\ \A o \in Orders : o # order(h) => payments'[o] = payments[o]
  BY PaymentMoves, OwnOrderOnly
<1>2. TicketOf[order(h)] # None => SubOf[order(h)] = None /\ ~IsRenewal(order(h))
  BY <1>0, OrderAssumption, RenewalAssumption DEF IsRenewal
<1>3. ASSUME NEW t \in Tickets, purchases'[t].payment # None,
             NEW o, o = purchases'[t].payment
      PROVE  /\ TicketOf[o] = t
             /\ \/ purchases'[t].revoked
                \/ payments'[o] = "SUCCEEDED"
                \/ \E g \in Handlers : pc'[g] = "revoke" /\ order(g)' = o
  <2>1. CASE Grant(h) /\ t = TicketOf[order(h)]
    <3>1. o = order(h) /\ pc[h] = "grant" /\ payments' = payments
      BY <1>0, <1>3, <2>1 DEF Grant, GrantTicketPurchase
    <3> QED BY <1>0, <2>1, <3>1 DEF InStep, CreditDue
  <2>2. CASE ~(Grant(h) /\ t = TicketOf[order(h)])
    <3>1. /\ purchases'[t].payment = purchases[t].payment
          /\ purchases[t].revoked => purchases'[t].revoked
      <4>1. CASE Grant(h)
        BY <1>0, <2>2, <4>1 DEF Grant, GrantTicketPurchase
      <4>2. CASE Revoke(h)
        BY <1>0, <4>2, RevokeEffect DEF Revoke
      <4>3. CASE ~Grant(h) /\ ~Revoke(h)
        BY <4>3 DEF HandlerStep, Decide, Transition, SaveCard, ReadRunning, Open, Fold,
           Deactivate, ClosePending, Credit, Reverse, EndCalendar, RecordRenewal, Renew,
           Mark, Throw, dbVars
      <4> QED BY <4>1, <4>2, <4>3
    <3>2. /\ TicketOf[o] = t
          /\ \/ purchases[t].revoked
             \/ payments[o] = "SUCCEEDED"
             \/ \E g \in Handlers : pc[g] = "revoke" /\ order(g) = o
      BY <1>3, <3>1 DEF TicketsHold
    <3>3. o \in Orders
      BY <1>0, <1>3, <3>1 DEF PurchaseRow
    <3>4. t # None
      BY NoneAssumption
    <3>5. ASSUME payments[o] = "SUCCEEDED", payments'[o] # "SUCCEEDED"
          PROVE  pc'[h] = "revoke" /\ order(h)' = o
      <4>1. o = order(h) /\ Transition(h)
        BY <1>0, <1>1, <1>2, <3>2, <3>3, <3>4, <3>5
      <4>2. payments'[o] = msg[h].status /\ msg[h].status \in Reversing
        BY <1>0, <1>1, <3>5, <4>1
           DEF CanTransition, AllowedTransitions, Reversing, Transition, RecordRenewal
      <4>3. pc'[h] \in AfterTransition(o, msg[h].status) /\ msg' = msg
        BY <1>1, <4>1 DEF Transition, RecordRenewal
      <4>4. AfterTransition(o, msg[h].status) = {"revoke"}
        BY <1>2, <3>2, <3>4, <4>1, <4>2 DEF AfterTransition, Reversing
      <4> QED BY <4>1, <4>3, <4>4 DEF order
    <3>6. ASSUME NEW g \in Handlers, pc[g] = "revoke", order(g) = o
          PROVE  purchases'[t].revoked \/ (pc'[g] = "revoke" /\ order(g)' = o)
      <4>1. CASE g # h
        BY <3>6, <4>1, OthersWait DEF order
      <4>2. CASE g = h
        <5>1. Revoke(h)
          BY <3>6, <4>2 DEF HandlerStep, Decide, Transition, SaveCard, ReadRunning, Open,
             Fold, Deactivate, ClosePending, Grant, Credit, Reverse, EndCalendar,
             RecordRenewal, Renew, Mark
        <5>2. purchases[t].payment # None /\ t = TicketOf[order(h)]
          BY <1>3, <3>1, <3>2, <3>6, <4>2
        <5> QED BY <1>0, <5>1, <5>2, RevokeEffect DEF Revoke
      <4> QED BY <4>1, <4>2
    <3> QED BY <3>1, <3>2, <3>5, <3>6
  <2> QED BY <2>1, <2>2
<1>4. ASSUME NEW o \in Orders, TicketOf[o] # None, payments'[o] = "SUCCEEDED"
      PROVE  \/ purchases'[TicketOf[o]].payment # None
             \/ \E g \in Handlers : pc'[g] = "grant" /\ order(g)' = o
  <2>0. TicketOf[o] \in Tickets /\ o # None
    BY <1>4, OrderAssumption, NoneAssumption
  <2>1. ASSUME NEW t \in Tickets, purchases[t].payment # None
        PROVE  purchases'[t].payment # None
    <3>1. order(h) # None
      BY <1>0, NoneAssumption
    <3>2. CASE Grant(h)
      BY <1>0, <2>1, <3>1, <3>2 DEF Grant, GrantTicketPurchase
    <3>3. CASE Revoke(h)
      BY <1>0, <2>1, <3>3, RevokeEffect DEF Revoke
    <3>4. CASE ~Grant(h) /\ ~Revoke(h)
      BY <2>1, <3>4 DEF HandlerStep, Decide, Transition, SaveCard, ReadRunning, Open, Fold,
         Deactivate, ClosePending, Credit, Reverse, EndCalendar, RecordRenewal, Renew,
         Mark, Throw, dbVars
    <3> QED BY <3>2, <3>3, <3>4
  <2>2. CASE payments[o] # "SUCCEEDED"
    <3>1. o = order(h) /\ Transition(h)
      BY <1>1, <1>2, <1>4, <2>2
    <3>2. msg[h].status = "SUCCEEDED" /\ msg' = msg /\ pc'[h] \in AfterTransition(o, msg[h].status)
      BY <1>0, <1>1, <1>4, <3>1 DEF Transition, RecordRenewal
    <3>3. AfterTransition(o, msg[h].status) = {"grant"}
      BY <1>2, <1>4, <3>1, <3>2 DEF AfterTransition
    <3> QED BY <3>1, <3>2, <3>3 DEF order
  <2>3. CASE purchases[TicketOf[o]].payment # None
    BY <2>0, <2>1, <2>3
  <2>4. ASSUME NEW g \in Handlers, pc[g] = "grant", order(g) = o
        PROVE  \/ purchases'[TicketOf[o]].payment # None
               \/ pc'[g] = "grant" /\ order(g)' = o
    <3>1. CASE g # h
      BY <2>4, <3>1, OthersWait DEF order
    <3>2. CASE g = h
      <4>1. Grant(h)
        BY <2>4, <3>2 DEF HandlerStep, Decide, Transition, SaveCard, ReadRunning, Open,
           Fold, Deactivate, ClosePending, Revoke, Credit, Reverse, EndCalendar,
           RecordRenewal, Renew, Mark
      <4> QED BY <1>0, <2>0, <2>4, <3>2, <4>1 DEF Grant, GrantTicketPurchase
    <3> QED BY <3>1, <3>2
  <2> QED BY <1>4, <2>2, <2>3, <2>4 DEF TicketsHold
<1>5. ASSUME NEW t \in Tickets, purchases'[t].revoked
      PROVE  ~UndisturbedTicket(t)'
  <2>1. CASE purchases[t].revoked
    BY <2>1, ReturnsStay DEF TicketsHold, UndisturbedTicket
  <2>2. CASE ~purchases[t].revoked
    <3>1. Revoke(h)
      <4>1. CASE Grant(h)
        <5>1. CASE t = TicketOf[order(h)]
          BY <1>0, <1>5, <4>1, <5>1 DEF Grant, GrantTicketPurchase
        <5>2. CASE t # TicketOf[order(h)]
          BY <1>0, <1>5, <2>2, <4>1, <5>2 DEF Grant, GrantTicketPurchase
        <5> QED BY <5>1, <5>2
      <4>2. CASE ~Grant(h) /\ ~Revoke(h)
        BY <1>5, <2>2, <4>2 DEF HandlerStep, Decide, Transition, SaveCard, ReadRunning, Open,
           Fold, Deactivate, ClosePending, Credit, Reverse, EndCalendar, RecordRenewal,
           Renew, Mark, Throw, dbVars
      <4> QED BY <4>1, <4>2
    <3>2. t = TicketOf[order(h)]
      BY <1>0, <1>5, <2>2, <3>1, RevokeEffect DEF Revoke
    <3>3. payments[order(h)] \in Reversing
      BY <1>0, <3>1 DEF Revoke, InStep, ReturnDue
    <3> QED BY <1>0, <3>2, <3>3, ReturnsStay DEF UndisturbedTicket
  <2> QED BY <2>1, <2>2
<1> QED BY <1>3, <1>4, <1>5 DEF TicketsHold


(* The payments of a plan whose period has been given, and what the running  *)
(* row of the plan has from them: a period each, of which only days that     *)
(* have passed may be gone.                                                *)
Delivered(plan) == {o \in PaymentsOf(plan) : ~OnItsWay(o)}

PeriodsHold ==
  \A plan \in Plans : Undisturbed(plan) =>
    /\ IsFiniteSet(Delivered(plan))
    /\ (\A s \in Subs : PlanOf[s] = plan => ~Runs(s)) => Delivered(plan) = {}
    /\ \A s \in Subs : PlanOf[s] = plan /\ Runs(s) =>
         LET paid == Period * Cardinality(Delivered(plan))
         IN  paid <= subs[s].end /\ subs[s].end <= now + paid

LEMMA OnePeriodMore ==
  ASSUME NEW n \in Nat
  PROVE  /\ Period * n \in Nat
         /\ Period * (n + 1) = Period * n + Period
         /\ Period * 1 = Period
<1>1. Period \in Nat /\ Period > 0
  BY AttributeAssumption
<1> QED BY <1>1

LEMMA UndisturbedBefore ==
  ASSUME TypeOK, Control, BooksHold, NEW h \in Handlers, HandlerStep(h),
         NEW plan, Undisturbed(plan)'
  PROVE  Undisturbed(plan)
BY ReturnsStay DEF Undisturbed

LEMMA PeriodsCall ==
  ASSUME TypeOK, Control, OneActivePerPlan, OneAtATime, OwnRows, BooksHold, AccessHolds,
         PeriodsHold, NEW h \in Handlers, HandlerStep(h)
  PROVE  PeriodsHold'
<1> SUFFICES ASSUME NEW plan \in Plans, Undisturbed(plan)'
             PROVE  /\ IsFiniteSet(Delivered(plan)')
                    /\ (\A s \in Subs : PlanOf[s] = plan => ~Runs(s)') => Delivered(plan)' = {}
                    /\ \A s \in Subs : PlanOf[s] = plan /\ Runs(s)' =>
                         /\ Period * Cardinality(Delivered(plan)') <= subs'[s].end
                         /\ subs'[s].end <= now' + Period * Cardinality(Delivered(plan)')
  BY DEF PeriodsHold
<1> DEFINE InPlan(o) == SubOf[o] # None /\ PlanOf[SubOf[o]] = plan
           D == Delivered(plan)
<1>0. /\ Busy(h) /\ order(h) \in Orders /\ sub(h) = SubOf[order(h)] /\ InStep(h)
      /\ payments \in [Orders -> PaymentRowStates]
      /\ now' = now /\ now \in Nat
      /\ \A o \in Orders : o # order(h) => payments'[o] = payments[o]
  BY OwnOrderOnly, WorksAlone DEF TypeOK, StoreTypeOK, sub, order, BooksHold, BooksKept
<1>1. Undisturbed(plan)
  BY UndisturbedBefore
<1>2. /\ IsFiniteSet(D)
      /\ (\A s \in Subs : PlanOf[s] = plan => ~Runs(s)) => D = {}
      /\ \A s \in Subs : PlanOf[s] = plan /\ Runs(s) =>
           /\ Period * Cardinality(D) <= subs[s].end
           /\ subs[s].end <= now + Period * Cardinality(D)
  BY <1>1 DEF PeriodsHold
<1>3. /\ \A o : o \in D <=> o \in Orders /\ InPlan(o) /\ payments[o] = "SUCCEEDED" /\ ~OnItsWay(o)
      /\ \A o : o \in D' <=> o \in Orders /\ InPlan(o) /\ payments'[o] = "SUCCEEDED" /\ ~OnItsWay(o)'
  BY DEF Delivered, PaymentsOf
<1>4. \A o \in Orders : o # order(h) => (o \in D' <=> o \in D)
  BY <1>0, <1>3, HandsApart
<1>5. ASSUME order(h) \in D' <=> order(h) \in D,
             \A s \in Subs : PlanOf[s] = plan => (Runs(s)' <=> Runs(s)),
             \A s \in Subs : PlanOf[s] = plan /\ Runs(s) => RowKept(s)
      PROVE  /\ IsFiniteSet(D')
             /\ (\A s \in Subs : PlanOf[s] = plan => ~Runs(s)') => D' = {}
             /\ \A s \in Subs : PlanOf[s] = plan /\ Runs(s)' =>
                  /\ Period * Cardinality(D') <= subs'[s].end
                  /\ subs'[s].end <= now' + Period * Cardinality(D')
  <2>1. D' = D
    BY <1>3, <1>4, <1>5
  <2> QED BY <1>0, <1>2, <1>5, <2>1 DEF RowKept
<1>6. \A s \in Subs : RowKept(s) => (Runs(s)' <=> Runs(s))
  BY DEF RowKept, Runs
<1>7. CASE ~InPlan(order(h))
  <2>1. \A s \in Subs : PlanOf[s] = plan => RowKept(s)
    BY <1>0, <1>7, PlansApart
  <2>2. order(h) \notin D /\ order(h) \notin D'
    BY <1>3, <1>7
  <2> QED BY <1>5, <1>6, <2>1, <2>2
<1>8. CASE InPlan(order(h)) /\ KeepsAccess(h)
  <2>1. order(h) \in D' <=> order(h) \in D
    BY <1>0, <1>3, <1>8, HandsApart DEF KeepsAccess
  <2> QED BY <1>5, <1>6, <1>8, <2>1 DEF KeepsAccess
<1>9. CASE InPlan(order(h)) /\ MovesPayment(h)
  <2>1. payments'[order(h)] = msg[h].status /\ msg[h].status \notin Reversing
    BY <1>0, <1>9 DEF MovesPayment, Undisturbed
  <2>2. payments[order(h)] # "SUCCEEDED"
    BY <1>9, <2>1 DEF MovesPayment, CanTransition, AllowedTransitions, Reversing
  <2>3. PICK o \in Orders : o = order(h)
    BY <1>0
  <2>4. msg[h].status = "SUCCEEDED" => OnItsWay(o)'
    <3>1. sub(h) # None
      BY <1>0, <1>9
    <3> QED BY <1>9, <2>3, <3>1, HandsApart DEF MovesPayment
  <2>5. o \notin D /\ o \notin D'
    BY <1>3, <2>1, <2>2, <2>3, <2>4
  <2>6. order(h) \in D' <=> order(h) \in D
    BY <2>3, <2>5
  <2> QED BY <1>5, <1>6, <1>9, <2>6 DEF MovesPayment
<1>10. CASE InPlan(order(h)) /\ ShutsRow(h)
  <2>1. pc[h] # "deactivate"
    BY <1>0, <1>10 DEF InStep, ReturnDue, ShutsRow, Undisturbed
  <2>2. ~Runs(sub(h)) /\ subs'[sub(h)].status # "ACTIVE"
    BY <1>10, <2>1 DEF ShutsRow
  <2>3. \A s \in Subs : Runs(s)' <=> Runs(s)
    BY <1>6, <1>10, <2>2 DEF ShutsRow, Runs
  <2>4. order(h) \in D' <=> order(h) \in D
    BY <1>0, <1>3, <1>10, HandsApart DEF ShutsRow
  <2> QED BY <1>5, <1>10, <2>2, <2>3, <2>4 DEF ShutsRow
<1>11. ASSUME InPlan(order(h)), payments' = payments, GivesAccess(h), ~GivesAccess(h)',
              pc[h] \in {"open", "fold"}
       PROVE  order(h) \notin D /\ D' = D \union {order(h)}
  <2>1. payments[order(h)] = "SUCCEEDED"
    BY <1>0, <1>11 DEF InStep, CreditDue
  <2>2. order(h) \notin D /\ order(h) \in D'
    BY <1>0, <1>3, <1>11, <2>1, HandsApart
  <2> QED BY <1>3, <1>4, <2>2
<1>12. CASE InPlan(order(h)) /\ OpensRow(h)
  <2>1. order(h) \notin D /\ D' = D \union {order(h)}
    BY <1>11, <1>12 DEF OpensRow, GivesAccess
  <2>2. ~Runs(sub(h))
    <3>1. OnItsWay(order(h))
      BY <1>0, <1>12, HandsApart DEF OpensRow, GivesAccess
    <3> QED BY <1>0, <1>12, <3>1 DEF AccessHolds, Fresh, Runs
  <2>3. \A s \in Subs : PlanOf[s] = plan => ~Runs(s)
    BY <1>0, <1>12, <2>2 DEF OpensRow, RunningBeside, Runs
  <2>4. D' = {order(h)}
    BY <1>2, <2>1, <2>3
  <2>5. IsFiniteSet(D') /\ Cardinality(D') = 1
    BY <2>4, FS_Singleton
  <2>6. ASSUME NEW s \in Subs, PlanOf[s] = plan, Runs(s)'
        PROVE  s = sub(h) /\ subs'[s].end = now + Period
    BY <1>6, <1>12, <2>3, <2>6 DEF OpensRow
  <2>8. \E s \in Subs : PlanOf[s] = plan /\ Runs(s)'
    BY <1>0, <1>12 DEF OpensRow, Runs
  <2>9. Period \in Nat /\ Period * 1 = Period
    BY AttributeAssumption, OnePeriodMore
  <2> QED BY <1>0, <2>5, <2>6, <2>8, <2>9
<1>13. CASE InPlan(order(h)) /\ FoldsRow(h)
  <2>1. order(h) \notin D /\ D' = D \union {order(h)}
    BY <1>11, <1>13 DEF FoldsRow, GivesAccess
  <2>2. IsFiniteSet(D') /\ Cardinality(D') = Cardinality(D) + 1 /\ Cardinality(D) \in Nat
    BY <1>2, <2>1, FS_AddElement, FS_CardinalityType
  <2>3. PICK r \in Subs : /\ r = fold[h].running /\ r # sub(h)
                          /\ PlanOf[r] = plan /\ Runs(r)
    BY <1>0, <1>13 DEF FoldsRow, RunningBeside, Runs
  <2>4. /\ subs'[r].status = "ACTIVE"
        /\ subs'[r].end = Later(subs[r].end, now) + Period
    BY <1>13, <2>3 DEF FoldsRow, Runs
  <2>5. ASSUME NEW s \in Subs, PlanOf[s] = plan, Runs(s)' PROVE s = r
    <3>1. s # sub(h)
      BY <1>13, <2>5 DEF FoldsRow, Runs
    <3>2. s # r => Runs(s)
      BY <1>6, <1>13, <2>3, <2>5, <3>1 DEF FoldsRow
    <3> QED BY <2>3, <2>5, <3>2 DEF OneActivePerPlan, Runs
  <2>6. Runs(r)'
    BY <2>4 DEF Runs
  <2>7. PICK paid \in Nat : paid = Period * Cardinality(D)
    BY <2>2, OnePeriodMore
  <2>8. Period * Cardinality(D') = paid + Period
    BY <2>2, <2>7, OnePeriodMore
  <2>9. paid <= subs[r].end /\ subs[r].end <= now + paid /\ subs[r].end \in Nat
    <3>1. subs[r] \in SubscriptionRow
      BY DEF TypeOK, StoreTypeOK
    <3> QED BY <1>2, <2>3, <2>7, <3>1 DEF SubscriptionRow
  <2>10. Period \in Nat
    BY AttributeAssumption
  <2>11. /\ paid + Period <= subs'[r].end
         /\ subs'[r].end <= now + (paid + Period)
    BY <1>0, <2>4, <2>7, <2>9, <2>10 DEF Later
  <2> QED BY <1>0, <2>2, <2>3, <2>5, <2>6, <2>8, <2>11
<1> QED
  BY <1>7, <1>8, <1>9, <1>10, <1>12, <1>13, AccessCases


(* What is nobody's port call changes neither who has a right in hand nor   *)
(* a row.  The clock only runs between requests.                           *)
LEMMA QuietHands ==
  ASSUME TypeOK, [Next]_vars, ~ \E h \in Handlers : HandlerStep(h) \/ Crash(h)
  PROVE  /\ \A o : OnItsWay(o)' <=> OnItsWay(o)
         /\ \A o, step : step \in {"deactivate", "grant", "revoke"} =>
              ((\E h \in Handlers : pc'[h] = step /\ msg'[h].order = o)
                <=> \E h \in Handlers : pc[h] = step /\ msg[h].order = o)
<1>1. \A h \in Handlers :
        \/ pc'[h] = pc[h] /\ msg'[h] = msg[h] /\ verdict'[h] = verdict[h]
        \/ pc[h] = "idle" /\ pc'[h] = "decide"
  BY QuietStep
<1>2. ASSUME NEW h \in Handlers
      PROVE  (GivesAccess(h)' <=> GivesAccess(h)) /\ (GivesAccess(h) => order(h)' = order(h))
  BY <1>1 DEF GivesAccess, order
<1>3. ASSUME NEW o PROVE OnItsWay(o)' <=> OnItsWay(o)
  BY <1>2 DEF OnItsWay
<1>4. ASSUME NEW o, NEW step, step \in {"deactivate", "grant", "revoke"}
      PROVE  (\E h \in Handlers : pc'[h] = step /\ msg'[h].order = o)
                <=> \E h \in Handlers : pc[h] = step /\ msg[h].order = o
  BY <1>1, <1>4
<1> QED BY <1>3, <1>4

LEMMA AccessQuiet ==
  ASSUME TypeOK, AccessHolds, [Next]_vars, ~ \E h \in Handlers : HandlerStep(h) \/ Crash(h)
  PROVE  AccessHolds'
<1>1. payments' = payments /\ subs' = subs
  BY QuietStep DEF dbVars
<1>2. ASSUME NEW o \in Orders, SubOf[o] # None, payments'[o] \notin Captured \/ OnItsWay(o)'
      PROVE  Fresh(SubOf[o])'
  BY <1>1, <1>2, QuietHands DEF AccessHolds, Fresh
<1>3. ASSUME NEW s \in Subs, Runs(s)'
      PROVE  \E o \in Orders : /\ SubOf[o] = s
                               /\ \/ payments'[o] = "SUCCEEDED"
                                  \/ \E h \in Handlers : pc'[h] = "deactivate" /\ msg'[h].order = o
  BY <1>1, <1>3, QuietHands DEF AccessHolds, Runs, order
<1>4. ASSUME NEW h \in Handlers, pc'[h] = "fold"
      PROVE  /\ fold'[h].running \in RunningBeside(sub(h))'
             /\ fold'[h].base = subs'[fold'[h].running].end
  <2>1. pc[h] = "fold" /\ msg'[h] = msg[h] /\ fold'[h] = fold[h]
    BY <1>4, QuietStep
  <2> QED BY <1>1, <2>1 DEF AccessHolds, RunningBeside, sub
<1> QED BY <1>2, <1>3, <1>4 DEF AccessHolds, order

LEMMA TicketsQuiet ==
  ASSUME TypeOK, TicketsHold, [Next]_vars, ~ \E h \in Handlers : HandlerStep(h) \/ Crash(h)
  PROVE  TicketsHold'
<1>1. payments' = payments /\ purchases' = purchases
  BY QuietStep DEF dbVars
<1>2. \A t \in Tickets : purchases'[t].revoked => ~UndisturbedTicket(t)'
  BY <1>1 DEF TicketsHold, UndisturbedTicket
<1> QED BY <1>1, <1>2, QuietHands DEF TicketsHold, order

LEMMA PeriodsQuiet ==
  ASSUME TypeOK, PeriodsHold, [Next]_vars, ~ \E h \in Handlers : HandlerStep(h) \/ Crash(h)
  PROVE  PeriodsHold'
<1>1. /\ payments' = payments /\ subs' = subs
      /\ now' = now \/ now' = now + 1
      /\ now \in Nat
  BY QuietStep DEF dbVars, TypeOK, StoreTypeOK
<1> SUFFICES ASSUME NEW plan \in Plans, Undisturbed(plan)'
             PROVE  /\ IsFiniteSet(Delivered(plan)')
                    /\ (\A s \in Subs : PlanOf[s] = plan => ~Runs(s)') => Delivered(plan)' = {}
                    /\ \A s \in Subs : PlanOf[s] = plan /\ Runs(s)' =>
                         /\ Period * Cardinality(Delivered(plan)') <= subs'[s].end
                         /\ subs'[s].end <= now' + Period * Cardinality(Delivered(plan)')
  BY DEF PeriodsHold
<1>2. Undisturbed(plan)
  BY <1>1 DEF Undisturbed
<1>3. Delivered(plan)' = Delivered(plan)
  BY <1>1, QuietHands DEF Delivered, PaymentsOf
<1>4. \A s \in Subs : Runs(s)' <=> Runs(s)
  BY <1>1 DEF Runs
<1>5. /\ IsFiniteSet(Delivered(plan))
      /\ (\A s \in Subs : PlanOf[s] = plan => ~Runs(s)) => Delivered(plan) = {}
  BY <1>2 DEF PeriodsHold
<1>6. PICK paid \in Nat : paid = Period * Cardinality(Delivered(plan))
  BY <1>5, FS_CardinalityType, OnePeriodMore
<1>7. ASSUME NEW s \in Subs, PlanOf[s] = plan, Runs(s)
      PROVE  paid <= subs[s].end /\ subs[s].end <= now' + paid
  <2>1. subs[s].end \in Nat
    <3>1. subs[s] \in SubscriptionRow
      BY DEF TypeOK, StoreTypeOK
    <3> QED BY <3>1 DEF SubscriptionRow
  <2>2. paid <= subs[s].end /\ subs[s].end <= now + paid
    BY <1>2, <1>6, <1>7 DEF PeriodsHold
  <2> QED BY <1>1, <1>6, <2>1, <2>2
<1> QED BY <1>1, <1>3, <1>4, <1>5, <1>6, <1>7


(* Nothing has been bought yet, and every row waits for its payment.        *)
LEMMA AccessAtFirst ==
  ASSUME Init
  PROVE  AccessHolds /\ TicketsHold /\ PeriodsHold
<1>1. /\ \A o \in Orders : payments[o] \in {"NONE", "CREATED"}
      /\ \A s \in Subs : subs[s].status = "PENDING"
      /\ \A t \in Tickets : purchases[t].payment = None /\ ~purchases[t].revoked
      /\ \A h \in Handlers : pc[h] = "idle"
  BY DEF Init
<1>2. AccessHolds
  BY <1>1, OrderAssumption DEF AccessHolds, Fresh, Runs
<1>3. TicketsHold
  BY <1>1 DEF TicketsHold
<1>4. \A plan : Delivered(plan) = {}
  BY <1>1 DEF Delivered, PaymentsOf
<1>5. IsFiniteSet({})
  BY FS_EmptySet
<1>6. PeriodsHold
  BY <1>1, <1>4, <1>5 DEF PeriodsHold, Runs
<1> QED BY <1>2, <1>3, <1>6

AccessSound == AccessHolds /\ TicketsHold /\ PeriodsHold

LEMMA AccessStep ==
  ASSUME TypeOK, Control, OneActivePerPlan, OneAtATime, OwnRows, BooksHold, AccessSound,
         [Next]_vars, ~ \E h \in Handlers : Crash(h)
  PROVE  AccessSound'
<1>1. CASE \E h \in Handlers : HandlerStep(h)
  BY <1>1, AccessCall, TicketsCall, PeriodsCall DEF AccessSound
<1>2. CASE ~ \E h \in Handlers : HandlerStep(h)
  BY <1>2, AccessQuiet, TicketsQuiet, PeriodsQuiet DEF AccessSound
<1> QED BY <1>1, <1>2

LEMMA AccessAlways ==
  ASSUME OwnRows
  PROVE  Spec /\ []OneAtATime => [](crashes = 0 => AccessSound)
<1>1. Init => AccessSound
  BY AccessAtFirst DEF AccessSound
<1>2. TypeOK /\ Control /\ OneActivePerPlan /\ OneAtATime /\ (crashes = 0 => BooksHold)
        /\ (crashes = 0 => AccessSound) /\ [Next]_vars => (crashes = 0 => AccessSound)'
  BY AccessStep, NobodyDies
<1> QED BY <1>1, <1>2, Invariant, OneActive, BooksAlways, PTL DEF Spec

(* While no request has died, and if no two are under way for one matter at  *)
(* once: whenever all requests have been answered, a subscription runs only *)
(* on a payment of its plan that stands and a ticket is held only on one of *)
(* its own, and every payment that stands has bought its access, after any  *)
(* declines, repeats, expiries and returns, whatever their order, but where *)
(* another payment of its plan or ticket has been returned.                 *)
THEOREM AccessSettled ==
  ASSUME OwnRows
  PROVE  Spec /\ []OneAtATime => [](crashes = 0 => AccessMatchesPayments)
<1>1. ASSUME AccessSound, AllIdle PROVE AccessMatchesPayments
  <2>0. /\ \A h \in Handlers : pc[h] = "idle"
        /\ \A o : ~OnItsWay(o)
    BY <1>1 DEF AllIdle, OnItsWay, GivesAccess
  <2>1. ASSUME NEW s \in Subs, subs[s].status = "ACTIVE"
        PROVE  PaymentsOf(PlanOf[s]) # {}
    <3>1. PICK o \in Orders : SubOf[o] = s /\ payments[o] = "SUCCEEDED"
      BY <1>1, <2>0, <2>1 DEF AccessSound, AccessHolds, Runs
    <3>2. s # None
      BY NoneAssumption
    <3> QED BY <3>1, <3>2 DEF PaymentsOf
  <2>2. ASSUME NEW s \in Subs, Undisturbed(PlanOf[s]), PaymentsOf(PlanOf[s]) # {}
        PROVE  \E running \in Subs :
                 PlanOf[running] = PlanOf[s] /\ subs[running].status = "ACTIVE"
    <3>1. PlanOf[s] \in Plans
      BY AttributeAssumption
    <3>2. Delivered(PlanOf[s]) # {}
      BY <2>0, <2>2 DEF Delivered
    <3> QED BY <1>1, <2>2, <3>1, <3>2 DEF AccessSound, PeriodsHold, Runs
  <2>3. /\ \A t \in Tickets : purchases[t].payment # None /\ ~purchases[t].revoked =>
             payments[purchases[t].payment] = "SUCCEEDED"
        /\ \A o \in Orders : TicketOf[o] # None /\ payments[o] = "SUCCEEDED" =>
             /\ purchases[TicketOf[o]].payment # None
             /\ UndisturbedTicket(TicketOf[o]) => ~purchases[TicketOf[o]].revoked
    <3>1. \A o \in Orders : TicketOf[o] # None => TicketOf[o] \in Tickets
      BY OrderAssumption
    <3> QED BY <1>1, <2>0, <3>1 DEF AccessSound, TicketsHold
  <2> QED BY <2>1, <2>2, <2>3 DEF AccessMatchesPayments
<1>2. AccessSound => AccessMatchesPayments
  BY <1>1 DEF AccessMatchesPayments
<1> QED BY <1>2, AccessAlways, PTL

(* Under the same conditions, the payments of one plan of which none has     *)
(* been returned have bought exactly one period each: a second one runs on  *)
(* from the end of the first, and nothing is lost or given away.            *)
THEOREM PaidTimeSettled ==
  ASSUME OwnRows
  PROVE  Spec /\ []OneAtATime => [](crashes = 0 => PaidTimeExact)
<1>1. ASSUME AccessSound, AllIdle PROVE PaidTimeExact
  <2>1. \A plan : Delivered(plan) = PaymentsOf(plan)
    BY <1>1 DEF AllIdle, OnItsWay, GivesAccess, Delivered
  <2>2. \A s \in Subs : PlanOf[s] \in Plans
    BY AttributeAssumption
  <2> QED BY <1>1, <2>1, <2>2 DEF AccessSound, PeriodsHold, PaidTimeExact, Runs
<1>2. AccessSound => PaidTimeExact
  BY <1>1 DEF PaidTimeExact
<1> QED BY <1>2, AccessAlways, PTL
-----------------------------------------------------------------------------
(* The running total of an analyst is the sum over his rows of the ledger.   *)
(* The sum grows by one summand when a movement books its row, and only     *)
(* movements touch either.                                                 *)
AmountOf == [row \in LedgerRow |-> Amount(row)]

RowsOf(a) == {row \in ledger : AnalystOf[row.order] = a}

Booked(a) == IsFiniteSet(RowsOf(a)) /\ earnings[a] = SumOver(AmountOf, RowsOf(a))

AllBooked == \A a \in Analysts : Booked(a)

LEMMA AmountsAreInt ==
  \A row \in LedgerRow : AmountOf[row] = Amount(row) /\ AmountOf[row] \in Int
<1>1. \A o \in Orders : Share[o] \in Int /\ -Share[o] \in Int
  BY AttributeAssumption
<1> QED BY <1>1 DEF AmountOf, Amount, LedgerRow

(* The fold of the property finds this sum.                                *)
LEMMA AmountsAddUp ==
  ASSUME NEW S, S \subseteq LedgerRow, IsFiniteSet(S)
  PROVE  MapThenSumSet(Amount, S) = SumOver(AmountOf, S)
<1> DEFINE By(it) ==
             [s \in SUBSET S |-> IF s = {} THEN 0 ELSE Amount(Pick(s)) + it[s \ {Pick(s)}]]
           Eq(it) == it = By(it)
<1>0. \A row \in S : AmountOf[row] \in Int
  BY AmountsAreInt
<1>1. \A s \in SUBSET S : s # {} => AmountOf[Pick(s)] = Amount(Pick(s))
  BY PickIn, AmountsAreInt
<1>2. ASSUME NEW it PROVE Eq(it) <=> AddsUp(it, AmountOf, S)
  <2>1. By(it) = [s \in SUBSET S |->
                    IF s = {} THEN 0 ELSE AmountOf[Pick(s)] + it[s \ {Pick(s)}]]
    BY <1>1
  <2> HIDE DEF By
  <2> QED BY <2>1 DEF AddsUp
<1> HIDE DEF Eq
<1>3. \E it : Eq(it)
  BY <1>0, <1>2, SumsExist DEF Sums
<1>4. PICK jt : jt = CHOOSE it : Eq(it)
  OBVIOUS
<1>5. Eq(jt)
  BY <1>3, <1>4, Zenon
<1>6. MapThenSumSet(Amount, S) = jt[S]
  BY <1>4 DEF Eq, MapThenSumSet, MapThenFoldSet, Pick
<1> QED BY <1>0, <1>2, <1>5, <1>6, SumIsAny

LEMMA MovementBooks ==
  ASSUME StoreTypeOK, AllBooked, NEW o \in Orders, NEW kind \in Kinds, NEW n \in Int,
         ApplyEarningsMovement(o, kind, n), Row(o, kind) \notin ledger,
         n = Amount(Row(o, kind))
  PROVE  AllBooked'
<1> SUFFICES ASSUME NEW a \in Analysts PROVE Booked(a)'
  BY DEF AllBooked
<1>1. PICK row \in LedgerRow : row = Row(o, kind) /\ row.order = o
  BY DEF Row, LedgerRow
<1>2. ledger' = ledger \union {row} /\ earnings' = [earnings EXCEPT ![AnalystOf[o]] = @ + n]
  BY <1>1 DEF ApplyEarningsMovement
<1>3. Booked(a) /\ earnings[a] \in Int
  BY DEF AllBooked, StoreTypeOK
<1>4. CASE AnalystOf[o] = a
  <2>1. PICK S : S = RowsOf(a)
    OBVIOUS
  <2>2. RowsOf(a)' = S \union {row} /\ row \notin S /\ S \subseteq LedgerRow
    BY <1>1, <1>2, <1>4, <2>1 DEF RowsOf, StoreTypeOK
  <2>3. SumOver(AmountOf, S \union {row}) = SumOver(AmountOf, S) + AmountOf[row]
    BY <1>3, <2>1, <2>2, SumAdd, AmountsAreInt DEF Booked
  <2>4. IsFiniteSet(S \union {row})
    BY <1>3, <2>1, FS_AddElement DEF Booked
  <2>5. earnings'[a] = earnings[a] + AmountOf[row]
    BY <1>1, <1>2, <1>3, <1>4, AmountsAreInt DEF StoreTypeOK
  <2> QED BY <1>3, <2>1, <2>2, <2>3, <2>4, <2>5 DEF Booked
<1>5. CASE AnalystOf[o] # a
  <2>1. RowsOf(a)' = RowsOf(a)
    BY <1>1, <1>2, <1>5 DEF RowsOf
  <2>2. earnings'[a] = earnings[a]
    BY <1>2, <1>5 DEF StoreTypeOK
  <2> QED BY <1>3, <2>1, <2>2 DEF Booked
<1> QED BY <1>4, <1>5

LEMMA StepBooked ==
  ASSUME TypeOK, AllBooked, [Next]_vars
  PROVE  AllBooked'
<1>1. ASSUME ledger' = ledger, earnings' = earnings PROVE AllBooked'
  BY <1>1 DEF AllBooked, Booked, RowsOf
<1>2. ASSUME NEW o \in Orders, CreditAnalystEarning(o) \/ ReverseAnalystEarning(o)
      PROVE  AllBooked'
  <2>1. Share[o] \in Int /\ -Share[o] \in Int
    BY AttributeAssumption
  <2>2. /\ Amount(Row(o, "ANALYST_EARNING")) = Share[o]
        /\ Amount(Row(o, "ANALYST_EARNING_REVERSAL")) = -Share[o]
    BY DEF Amount, Row
  <2> QED BY <1>1, <1>2, <2>1, <2>2, MovementBooks
          DEF CreditAnalystEarning, ReverseAnalystEarning, MovesEarnings, TypeOK, Kinds
<1>3. ASSUME NEW h \in Handlers, Credit(h) \/ Reverse(h) PROVE AllBooked'
  <2>1. pc[h] # "idle"
    BY <1>3 DEF Credit, Reverse
  <2>2. order(h) \in Orders
    BY <2>1, DeliveryFields DEF TypeOK, HandlerTypeOK, order
  <2> QED BY <1>2, <1>3, <2>2 DEF Credit, Reverse
<1>4. ASSUME NEW h \in Handlers, HandlerStep(h), ~Credit(h), ~Reverse(h) PROVE AllBooked'
  BY <1>1, <1>4 DEF HandlerStep, Decide, Transition, SaveCard, ReadRunning, Open, Fold,
     Deactivate, ClosePending, Grant, Revoke, EndCalendar, RecordRenewal, Renew, Mark,
     Throw, dbVars
<1> QED BY <1>1, <1>3, <1>4
        DEF Next, GatewayStep, ReceiveDelivery, Crash, Tick, vars, dbVars

LEMMA BookedAtFirst ==
  ASSUME ledger = {}, earnings = [a \in Analysts |-> 0]
  PROVE  AllBooked
<1>1. \A a \in Analysts : RowsOf(a) = {} /\ earnings[a] = 0
  BY DEF RowsOf
<1> QED BY <1>1, SumEmpty, FS_EmptySet DEF AllBooked, Booked

LEMMA BookedAsStated == TypeOK /\ AllBooked => EarningsMatchLedger
<1> SUFFICES ASSUME TypeOK, AllBooked, NEW a \in Analysts
             PROVE  earnings[a] = MapThenSumSet(Amount, RowsOf(a))
  BY DEF EarningsMatchLedger, RowsOf
<1>1. RowsOf(a) \subseteq LedgerRow /\ Booked(a)
  BY DEF RowsOf, TypeOK, StoreTypeOK, AllBooked
<1> QED BY <1>1, AmountsAddUp DEF Booked

(* However deliveries, repeats, crashes and returns overlap, the cached      *)
(* total of an analyst is what his rows of the ledger add up to             *)
(* (ledger.ts:39-64).                                                      *)
THEOREM LedgerAddsUp == Spec => []EarningsMatchLedger
<1>1. Init => AllBooked
  BY BookedAtFirst DEF Init
<1>2. TypeOK /\ AllBooked /\ [Next]_vars => AllBooked'
  BY StepBooked
<1> QED BY <1>1, <1>2, BookedAsStated, Invariant, PTL DEF Spec
=============================================================================
