--------------------------- MODULE MCSubscriptions ---------------------------
(***************************************************************************)
(* Instances of Subscriptions for TLC, over the orders of MCPayments.  Each *)
(* calendar charges once: r1 and r2 are first renewals.                    *)
(***************************************************************************)
EXTENDS Subscriptions, MCPayments

MCChargeOf == [o \in Orders |-> IF Table[o].parent = None THEN 0 ELSE 1]
(* The daily cron beside a gateway that repeats its callbacks until they are  *)
(* answered.                                                               *)
FairSystemSpec ==
  FairAppSpec /\ \A d \in TrueCallbacks : SF_allVars(Arrives(d) /\ UNCHANGED appVars)
=============================================================================
