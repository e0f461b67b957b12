---------------------------- MODULE PaymentStore ----------------------------
(***************************************************************************)
(* The database rows behind the payment webhook and the statements          *)
(* prisma-port.ts runs on them.  Every operator below is one transaction    *)
(* (or, for the two halves of activateSubscription, one statement of it:     *)
(* Postgres runs them READ COMMITTED, so another request may commit in      *)
(* between).  A guarded updateMany is an IF whose ELSE leaves the row.      *)
(*                                                                         *)
(* A Plan stands for one (user, plan) pair, a Ticket for one (user,         *)
(* prediction) pair.  Time is counted in whole abstract days.              *)
(***************************************************************************)
EXTENDS Integers, PaymentStatus

CONSTANTS
  Orders,       \* orders the gateway knows: checkouts, and calendar renewals
  Subs,         \* subscription rows
  Plans,        \* (user, plan) pairs
  Tickets,      \* (user, prediction) pairs
  Analysts,     \* earnings accounts
  None,         \* absence of an order, a subscription or a ticket
  SubOf,        \* the subscription an order pays for, or None
  TicketOf,     \* the ticket an order pays for, or None
  ParentOf,     \* the checkout whose calendar charges this order, or None
  PlanOf,       \* the (user, plan) pair of a subscription
  AnalystOf,    \* who earns from an order
  Share,        \* analystShareMinor of an order's price
  Period        \* length of the billing period

ASSUME NoneAssumption == None \notin Orders \union Subs \union Tickets

ASSUME OrderAssumption ==
  /\ SubOf \in [Orders -> Subs \union {None}]
  /\ TicketOf \in [Orders -> Tickets \union {None}]
  /\ ParentOf \in [Orders -> Orders \union {None}]
  /\ \A o \in Orders : (SubOf[o] = None) # (TicketOf[o] = None)

(* A renewal is charged for the subscription its parent checkout opened.   *)
ASSUME RenewalAssumption ==
  \A o \in Orders : ParentOf[o] # None =>
    /\ ParentOf[ParentOf[o]] = None
    /\ SubOf[o] = SubOf[ParentOf[o]]
    /\ SubOf[o] # None

ASSUME AttributeAssumption ==
  /\ PlanOf \in [Subs -> Plans]
  /\ AnalystOf \in [Orders -> Analysts]
  /\ Share \in [Orders -> Nat]
  /\ Period \in Nat \ {0}

VARIABLES
  payments,     \* Payment.status by order
  subs,         \* UserSubscription rows
  purchases,    \* PredictionPurchase rows
  ledger,       \* BalanceTransaction rows, keyed by (paymentId, kind)
  earnings,     \* User.earningsMinor
  now           \* the server's clock

dbVars == <<payments, subs, purchases, ledger, earnings>>

Kinds == {"ANALYST_EARNING", "ANALYST_EARNING_REVERSAL"}

Cancelers == {"none", "USER", "PAYMENT", "SYSTEM"}

SubscriptionRow ==
  [ status      : SubscriptionRowStates,
    canceledBy  : Cancelers,
    cancelAtEnd : BOOLEAN,     \* cancelAtPeriodEnd
    end         : Nat,         \* currentPeriodEnd; 0 is null
    calendar    : BOOLEAN,     \* renewalOrderId # null: always its own order
    card        : BOOLEAN ]    \* cardToken # null

PurchaseRow == [ payment : Orders \union {None}, revoked : BOOLEAN ]

LedgerRow == [ order : Orders, kind : Kinds ]

StoreTypeOK ==
  /\ payments \in [Orders -> PaymentRowStates]
  /\ subs \in [Subs -> SubscriptionRow]
  /\ purchases \in [Tickets -> PurchaseRow]
  /\ ledger \subseteq LedgerRow
  /\ earnings \in [Analysts -> Int]
  /\ now \in Nat
-----------------------------------------------------------------------------
Row(o, kind) == [order |-> o, kind |-> kind]

Earned(o)   == Row(o, "ANALYST_EARNING") \in ledger
TakenBack(o) == Row(o, "ANALYST_EARNING_REVERSAL") \in ledger

Later(a, b) == IF a >= b THEN a ELSE b

(* The other ACTIVE rows of this row's user and plan.                      *)
RunningBeside(s) ==
  {r \in Subs \ {s} : PlanOf[r] = PlanOf[s] /\ subs[r].status = "ACTIVE"}

(* The partial unique index UserSubscription_active_key: making s ACTIVE    *)
(* fails while another row of the same user and plan is.                   *)
NoActiveKey(s) == FALSE   \* faulty: the index is missing
ActiveKeyTaken(s) == RunningBeside(s) # {}
-----------------------------------------------------------------------------
(* Faulty: the update does not repeat the status the handler read.         *)
TransitionPaymentUnguarded(o, from, to) == payments' = [payments EXCEPT ![o] = to]

(* transitionPayment: guarded by the status the handler read.  A guard that *)
(* fails is silent, and the caller goes on.                                *)
TransitionPayment(o, from, to) ==
  payments' = IF payments[o] = from THEN [payments EXCEPT ![o] = to]
                                    ELSE payments

(* activateSubscription, no other row of the plan running.  A row a person *)
(* or the system closed stays shut.                                        *)
Openable(s) ==
  \/ subs[s].status \in {"PENDING", "PAST_DUE", "EXPIRED"}
  \/ subs[s].status = "CANCELED" /\ subs[s].canceledBy = "PAYMENT"

OpenSubscription(s) ==
  subs' = IF Openable(s)
          THEN [subs EXCEPT ![s] = [@ EXCEPT !.status = "ACTIVE",
                                             !.end = now + Period,
                                             !.canceledBy = "none",
                                             !.cancelAtEnd = FALSE]]
          ELSE subs

(* activateSubscription, another row running: the paid period is added to   *)
(* the end that was read from it, and this row is closed.                  *)
FoldFromNow(s, running, base) ==   \* faulty: the days still left are dropped
  LET gained == [subs EXCEPT ![running] = [@ EXCEPT !.end = now + Period,
                                                    !.cancelAtEnd = FALSE]]
  IN  subs' = [gained EXCEPT ![s] = [@ EXCEPT !.status = "CANCELED",
                                              !.canceledBy = "SYSTEM"]]

FoldSubscription(s, running, base) ==
  LET gained == [subs EXCEPT ![running] = [@ EXCEPT !.end = Later(base, now) + Period,
                                                    !.cancelAtEnd = FALSE]]
  IN  subs' = [gained EXCEPT ![s] = [@ EXCEPT !.status = "CANCELED",
                                              !.canceledBy = "SYSTEM"]]

CloseSubscriptionSwapped(s, guard) ==   \* faulty: the two fields are mixed up
  subs' = IF subs[s].status = guard
          THEN [subs EXCEPT ![s] = [@ EXCEPT !.status = "CANCELED",
                                             !.canceledBy = "CANCELED"]]
          ELSE subs

CloseSubscription(s, guard) ==
  subs' = IF subs[s].status = guard
          THEN [subs EXCEPT ![s] = [@ EXCEPT !.status = "CANCELED",
                                             !.canceledBy = "PAYMENT"]]
          ELSE subs

ClosePendingSubscription(s) == CloseSubscription(s, "PENDING")
DeactivateSubscription(s)   == CloseSubscription(s, "ACTIVE")

SaveCardToken(s) == subs' = [subs EXCEPT ![s].card = TRUE]
-----------------------------------------------------------------------------
(* grantTicketPurchase is an upsert: a re-bought ticket comes back.        *)
GrantTicketPurchase(o) ==
  purchases' = [purchases EXCEPT ![TicketOf[o]] =
                  [payment |-> o, revoked |-> FALSE]]

(* revokeTicketPurchase finds the row by its buyer and prediction.         *)
RevokeTicketPurchase(o) ==
  purchases' = IF purchases[TicketOf[o]].payment # None
               THEN [purchases EXCEPT ![TicketOf[o]].revoked = TRUE]
               ELSE purchases
-----------------------------------------------------------------------------
(* applyEarningsMovement: the running total and its row, in one             *)
(* transaction.  The unique (paymentId, kind) index makes a second movement *)
(* of the same kind fail, and the port swallows that.                      *)
ApplyEarningsMovement(o, kind, amount) ==
  /\ ledger' = ledger \union {Row(o, kind)}
  /\ earnings' = [earnings EXCEPT ![AnalystOf[o]] = @ + amount]

MovesEarningsAgain(o, kind) == Share[o] > 0   \* faulty: no (paymentId, kind) index

MovesEarnings(o, kind) == Share[o] > 0 /\ Row(o, kind) \notin ledger

CreditAnalystEarning(o) ==
  IF MovesEarnings(o, "ANALYST_EARNING")
  THEN ApplyEarningsMovement(o, "ANALYST_EARNING", Share[o])
  ELSE UNCHANGED <<ledger, earnings>>

ReverseAsEarning(o) ==   \* faulty: booked under the kind of the credit
  IF MovesEarnings(o, "ANALYST_EARNING")
  THEN ApplyEarningsMovement(o, "ANALYST_EARNING", -Share[o])
  ELSE UNCHANGED <<ledger, earnings>>

ReverseAnalystEarning(o) ==
  IF MovesEarnings(o, "ANALYST_EARNING_REVERSAL")
  THEN ApplyEarningsMovement(o, "ANALYST_EARNING_REVERSAL", -Share[o])
  ELSE UNCHANGED <<ledger, earnings>>
-----------------------------------------------------------------------------
(* endRenewalCalendar: only a live calendar of a live subscription ends.   *)
CalendarLive(s) == subs[s].status = "ACTIVE" /\ subs[s].calendar

EndRenewalCalendar(s) ==
  subs' = IF CalendarLive(s)
          THEN [subs EXCEPT ![s] = [@ EXCEPT !.calendar = FALSE, !.card = FALSE]]
          ELSE subs

(* recordRenewalPayment: the unique providerOrderId admits one row.        *)
RecordRenewalPayment(o) ==
  payments' = IF payments[o] = "NONE" THEN [payments EXCEPT ![o] = "SUCCEEDED"]
                                      ELSE payments

RenewableAlways(s) == ~subs[s].cancelAtEnd   \* faulty: CANCELED is renewed

Renewable(s) ==
  /\ subs[s].status \in {"PENDING", "ACTIVE", "PAST_DUE", "EXPIRED"}
  /\ ~subs[s].cancelAtEnd

RenewSubscription(s) ==
  subs' = IF Renewable(s)
          THEN [subs EXCEPT ![s] = [@ EXCEPT !.status = "ACTIVE",
                                             !.end = now + Period,
                                             !.calendar = TRUE]]
          ELSE subs
=============================================================================
