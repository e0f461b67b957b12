---------------------------- MODULE PaymentStatus ----------------------------
(***************************************************************************)
(* The vocabulary of payments and subscriptions, and the edges a payment    *)
(* may move along (webhook.ts, ALLOWED_TRANSITIONS).  "NONE" stands for a   *)
(* row that does not exist yet.                                            *)
(***************************************************************************)

PaymentStatuses ==
  {"CREATED", "PROCESSING", "SUCCEEDED", "FAILED",
   "CANCELED", "REFUNDED", "DISPUTED", "EXPIRED"}

PaymentRowStates == PaymentStatuses \union {"NONE"}

SubscriptionStatuses == {"PENDING", "ACTIVE", "CANCELED", "EXPIRED", "PAST_DUE"}

SubscriptionRowStates == SubscriptionStatuses \union {"NONE"}

AllowedTransitions ==
  [ CREATED    |-> {"PROCESSING", "SUCCEEDED", "FAILED", "CANCELED", "EXPIRED"},
    PROCESSING |-> {"SUCCEEDED", "FAILED", "CANCELED", "EXPIRED"},
    SUCCEEDED  |-> {"REFUNDED", "DISPUTED"},
    FAILED     |-> {"SUCCEEDED"},
    CANCELED   |-> {},
    EXPIRED    |-> {},
    REFUNDED   |-> {"DISPUTED"},
    DISPUTED   |-> {"REFUNDED"} ]

CanTransition(from, to) == to \in AllowedTransitions[from]

(* The status families the handler branches on.                            *)
Closing   == {"FAILED", "CANCELED", "EXPIRED"}
Reversing == {"REFUNDED", "DISPUTED"}
Captured  == {"SUCCEEDED"} \union Reversing   \* money has been taken
=============================================================================
