----------------------------- MODULE MCPayments -----------------------------
(***************************************************************************)
(* Instances of the payment model for TLC.  One table describes every order *)
(* the runs use; a configuration picks the orders of its scenario:          *)
(*   o1, o2, o3  checkouts of one plan, each with its own PENDING row;      *)
(*   r1, r2      renewals charged from the calendars of o1 and o2;          *)
(*   k1, k2      checkouts of one ticket;                                   *)
(*   x1          an order of the merchant account that is not ours.        *)
(***************************************************************************)
EXTENDS PaymentProperties, TLC

Table ==
  [ o1 |-> [sub |-> "s1", ticket |-> None, parent |-> None],
    o2 |-> [sub |-> "s2", ticket |-> None, parent |-> None],
    o3 |-> [sub |-> "s3", ticket |-> None, parent |-> None],
    r1 |-> [sub |-> "s1", ticket |-> None, parent |-> "o1"],
    r2 |-> [sub |-> "s2", ticket |-> None, parent |-> "o2"],
    k1 |-> [sub |-> None, ticket |-> "t1", parent |-> None],
    k2 |-> [sub |-> None, ticket |-> "t1", parent |-> None],
    x1 |-> [sub |-> None, ticket |-> "t1", parent |-> None] ]

MCSubs     == {Table[o].sub : o \in Orders} \ {None}
MCTickets  == {Table[o].ticket : o \in Orders} \ {None}
MCSubOf    == [o \in Orders |-> Table[o].sub]
MCTicketOf == [o \in Orders |-> Table[o].ticket]
MCParentOf == [o \in Orders |-> Table[o].parent]
MCPlanOf   == [s \in MCSubs |-> "plan"]

(* Shares differ, so that one order's movement cannot stand in for another. *)
MCShare     == [o \in Orders |-> IF o \in {"o1", "r1", "k1"} THEN 1 ELSE 3]
MCAnalystOf == [o \in Orders |-> "analyst"]

HandlerSymmetry == Permutations(Handlers)

Post(o, st, signed, amount) ==
  [order |-> o, status |-> st, attempt |-> 0, via |-> "callback",
   signed |-> signed, amount |-> amount]

MCForeign == Orders \intersect {"x1"}

Never     == [o \in Orders |-> 0]
OnceEach  == [o \in Orders |-> 1]
RenewalsOnly == [o \in Orders |-> IF Table[o].parent = None THEN 0 ELSE 1]
NotAtO2   == [o \in Orders |-> IF o = "o2" THEN 0 ELSE 1]
OnlyAtO1 == [o \in Orders |-> IF o = "o1" THEN 1 ELSE 0]

NoNoise == {}

(* A forged approval carrying the id the true one will have, a signed one    *)
(* that names no price, a status nobody knows, and a signed success of an   *)
(* order that is not ours.                                                 *)
CheckoutNoise ==
  { Post("o1", "SUCCEEDED", FALSE, "match"),
    [Post("o1", "SUCCEEDED", TRUE, "absent") EXCEPT !.attempt = 9],
    Post("o1", "UNKNOWN", TRUE, "match"),
    Post("x1", "SUCCEEDED", TRUE, "match") }

(* Buyers who have all chosen a recurring payment: an instance that charges   *)
(* no renewal does not read the choice again.                              *)
RecurringInit == Init /\ \A s \in Subs : subs[s].calendar

RecurringSpec == RecurringInit /\ [][Next]_vars
=============================================================================
