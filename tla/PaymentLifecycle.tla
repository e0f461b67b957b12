-------------------------- MODULE PaymentLifecycle --------------------------
(***************************************************************************)
(* What the payment table promises, whatever order callbacks arrive in and  *)
(* however many handlers work on it: a row is opened by a checkout or by a  *)
(* charged renewal and from then on moves along one allowed edge at a time. *)
(***************************************************************************)
EXTENDS PaymentStatus

CONSTANT Payments

VARIABLE status

Init == status \in [Payments -> {"NONE", "CREATED"}]

(* A checkout writes its payment before the gateway's page opens.          *)
OpenCheckout(p) ==
  /\ status[p] = "NONE"
  /\ status' = [status EXCEPT ![p] = "CREATED"]

(* A renewal is first heard of when the gateway has already charged it.    *)
OpenRenewal(p) ==
  /\ status[p] = "NONE"
  /\ status' = [status EXCEPT ![p] = "SUCCEEDED"]

Move(p) ==
  /\ status[p] # "NONE"
  /\ \E to \in PaymentStatuses :
       /\ CanTransition(status[p], to)
       /\ status' = [status EXCEPT ![p] = to]

Next == \E p \in Payments : OpenCheckout(p) \/ OpenRenewal(p) \/ Move(p)

Spec == Init /\ [][Next]_status
=============================================================================
