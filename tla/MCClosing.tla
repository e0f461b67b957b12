----------------------------- MODULE MCClosing ------------------------------
(***************************************************************************)
(* Instances of AccountClosing for TLC, over the orders of MCPayments.  The *)
(* calendar charges once.                                                  *)
(***************************************************************************)
EXTENDS AccountClosing, MCPayments

MCChargeOf == [o \in Orders |-> IF Table[o].parent = None THEN 0 ELSE 1]
=============================================================================
