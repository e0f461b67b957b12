------------------------------- MODULE Payouts -------------------------------
(***************************************************************************)
(* Withdrawals of analysts' earnings (payouts/service.ts).  The analyst     *)
(* asks from a form; an administrator transfers the money by hand in the    *)
(* bank and says so, or refuses.  A request is checked on rows that are      *)
(* read outside the transaction that holds the money, and a refusal claims  *)
(* the row and gives the money back in two transactions.                   *)
(*                                                                         *)
(* A withdrawal is named after the form it was asked from.                 *)
(***************************************************************************)
EXTENDS Integers, FiniteSets, FiniteSetsExt

CONSTANTS
  Analysts,     \* with an approved profile
  Forms,        \* submissions of the withdrawal form
  Desks,        \* administrators' requests that can be in flight
  OwnerOf,      \* the analyst who submits a form
  Sizes,        \* bound: amounts that are asked for or earned
  Minimum,      \* ANALYST_MIN_PAYOUT_MINOR
  Windows,      \* overrides of the calendar in use
  MaxPayments,  \* bound: payments of subscribers, and chargebacks of them
  MaxCrashes    \* bound: administrators' requests that die half way

Overrides == {"SCHEDULE", "OPEN", "CLOSED"}

ASSUME PayoutsAssumption ==
  /\ OwnerOf \in [Forms -> Analysts]
  /\ Sizes \subseteq Nat \ {0}
  /\ Minimum \in Nat
  /\ Windows \subseteq Overrides /\ "SCHEDULE" \in Windows
  /\ MaxPayments \in Nat /\ MaxCrashes \in Nat

VARIABLES
  earnings,     \* User.earningsMinor
  status,       \* AnalystPayout.status; "NONE" before the row exists
  held,         \* AnalystPayout.amountMinor
  returned,     \* withdrawals with a WITHDRAWAL_REVERSAL row
  window,       \* AnalystProfile.payoutWindow
  lastDay,      \* today is the last day of the month, in Tbilisi
  form,         \* what a submission does next
  asked,        \* the amount it asks for
  mayAsk,       \* the window, as it read it
  desk,         \* what an administrator's request does next
  row,          \* the withdrawal it decides
  income,       \* shares of payments credited, less the ones charged back
  payments,     \* how many of them there were
  crashes

rowVars == <<earnings, status, held, returned>>
formVars == <<form, asked, mayAsk>>
deskVars == <<desk, row>>
boundVars == <<payments, crashes>>
vars == <<rowVars, income, window, lastDay, formVars, deskVars, boundVars>>

(* APPROVED and FAILED are in the enum, and no code writes them any more.    *)
PayoutStatuses == {"REQUESTED", "REJECTED", "PAID"}

(* Who is about to give money back holds a refusal nobody has overruled.     *)
PayoutsTypeOK ==
  /\ earnings \in [Analysts -> Int]
  /\ status \in [Forms -> PayoutStatuses \union {"NONE"}]
  /\ held \in [Forms -> Nat]
  /\ returned \subseteq Forms
  /\ window \in [Analysts -> Overrides]
  /\ lastDay \in BOOLEAN
  /\ form \in [Forms -> {"blank", "opened", "checked", "done"}]
  /\ asked \in [Forms -> Nat]
  /\ mayAsk \in [Forms -> BOOLEAN]
  /\ desk \in [Desks -> {"idle", "reject", "pay", "return"}]
  /\ row \in [Desks -> Forms]
  /\ income \in [Analysts -> Int]
  /\ payments \in Nat
  /\ crashes \in Nat
  /\ \A d \in Desks : desk[d] = "return" => status[row[d]] = "REJECTED"

Init ==
  /\ earnings = [a \in Analysts |-> 0]
  /\ status = [f \in Forms |-> "NONE"]
  /\ held = [f \in Forms |-> 0]
  /\ returned = {}
  /\ window = [a \in Analysts |-> "SCHEDULE"]
  /\ lastDay \in BOOLEAN
  /\ form = [f \in Forms |-> "blank"]
  /\ asked = [f \in Forms |-> 0]
  /\ mayAsk = [f \in Forms |-> FALSE]
  /\ desk = [d \in Desks |-> "idle"]
  /\ row \in [Desks -> Forms]
  /\ income = [a \in Analysts |-> 0]
  /\ payments = 0
  /\ crashes = 0
-----------------------------------------------------------------------------
(* applyEarningsMovement, for payments of subscribers: the total may go      *)
(* below zero when one is charged back after it was withdrawn.             *)
CreditAnalystEarning(a, n) ==
  /\ payments < MaxPayments
  /\ payments' = payments + 1
  /\ earnings' = [earnings EXCEPT ![a] = @ + n]
  /\ income' = [income EXCEPT ![a] = @ + n]
  /\ UNCHANGED <<status, held, returned, window, lastDay, formVars, deskVars, crashes>>

ReverseAnalystEarning(a, n) ==
  /\ payments < MaxPayments /\ n <= income[a]
  /\ payments' = payments + 1
  /\ earnings' = [earnings EXCEPT ![a] = @ - n]
  /\ income' = [income EXCEPT ![a] = @ - n]
  /\ UNCHANGED <<status, held, returned, window, lastDay, formVars, deskVars, crashes>>
-----------------------------------------------------------------------------
(* requestWithdrawal.                                                      *)

WindowForgetsHold(override) ==   \* faulty: the last day opens a held window too
  override = "OPEN" \/ lastDay

IsWithdrawalWindowOpen(override) ==
  override = "OPEN" \/ (override = "SCHEDULE" /\ lastDay)

(* The clock and the profile are read first.                               *)
RequestWithdrawal(f, n) ==
  /\ form[f] = "blank"
  /\ form' = [form EXCEPT ![f] = "opened"]
  /\ asked' = [asked EXCEPT ![f] = n]
  /\ mayAsk' = [mayAsk EXCEPT ![f] = IsWithdrawalWindowOpen(window[OwnerOf[f]])]
  /\ UNCHANGED <<rowVars, income, window, lastDay, deskVars, boundVars>>

HasPendingRequest(a) == \E f \in Forms : OwnerOf[f] = a /\ status[f] = "REQUESTED"

Allowed(f) ==
  /\ ~HasPendingRequest(OwnerOf[f])
  /\ mayAsk[f]
  /\ asked[f] >= Minimum
  /\ asked[f] <= earnings[OwnerOf[f]]

(* Then the earnings and the open requests.  A refusal writes nothing,       *)
(* whether it is one of these or a wrong account number.                   *)
CheckWithdrawal(f) ==
  /\ form[f] = "opened"
  /\ \/ Allowed(f) /\ form' = [form EXCEPT ![f] = "checked"]
     \/ form' = [form EXCEPT ![f] = "done"]
  /\ UNCHANGED <<rowVars, income, window, lastDay, asked, mayAsk, deskVars, boundVars>>

Hold(f) ==
  /\ earnings' = [earnings EXCEPT ![OwnerOf[f]] = @ - asked[f]]
  /\ status' = [status EXCEPT ![f] = "REQUESTED"]
  /\ held' = [held EXCEPT ![f] = asked[f]]
  /\ UNCHANGED returned

HoldWithoutMoney(f) ==   \* faulty: the row is written whatever the decrement matched
  /\ form[f] = "checked"
  /\ form' = [form EXCEPT ![f] = "done"]
  /\ IF asked[f] <= earnings[OwnerOf[f]]
     THEN Hold(f)
     ELSE /\ status' = [status EXCEPT ![f] = "REQUESTED"]
          /\ held' = [held EXCEPT ![f] = asked[f]]
          /\ UNCHANGED <<earnings, returned>>
  /\ UNCHANGED <<income, window, lastDay, asked, mayAsk, deskVars, boundVars>>

HoldEarningsUnconditionally(f) ==   \* faulty: trusts the check made before
  /\ form[f] = "checked"
  /\ form' = [form EXCEPT ![f] = "done"]
  /\ Hold(f)
  /\ UNCHANGED <<income, window, lastDay, asked, mayAsk, deskVars, boundVars>>

(* The transaction: the money is taken if it is still there, with its row.  *)
HoldEarnings(f) ==
  /\ form[f] = "checked"
  /\ form' = [form EXCEPT ![f] = "done"]
  /\ IF asked[f] <= earnings[OwnerOf[f]] THEN Hold(f) ELSE UNCHANGED rowVars
  /\ UNCHANGED <<income, window, lastDay, asked, mayAsk, deskVars, boundVars>>
-----------------------------------------------------------------------------
(* decidePayoutAction.                                                     *)

Sit(d, step) == desk' = [desk EXCEPT ![d] = step]

(* A request that is no longer open is refused here.                       *)
ReadPayout(d, f) ==
  /\ desk[d] = "idle"
  /\ status[f] = "REQUESTED"
  /\ \E decision \in {"reject", "pay"} : Sit(d, decision)
  /\ row' = [row EXCEPT ![d] = f]
  /\ UNCHANGED <<rowVars, income, window, lastDay, formVars, boundVars>>

RejectPayoutKeeps(d) ==   \* faulty: the money stays behind
  /\ desk[d] = "reject"
  /\ Sit(d, "idle")
  /\ status' = IF status[row[d]] = "REQUESTED"
               THEN [status EXCEPT ![row[d]] = "REJECTED"] ELSE status
  /\ UNCHANGED <<earnings, held, returned, income, window, lastDay, formVars, row, boundVars>>

(* rejectPayout: who claims the row gives the money back.                  *)
RejectPayout(d) ==
  /\ desk[d] = "reject"
  /\ IF status[row[d]] = "REQUESTED"
     THEN /\ status' = [status EXCEPT ![row[d]] = "REJECTED"]
          /\ Sit(d, "return")
     ELSE /\ Sit(d, "idle")
          /\ UNCHANGED status
  /\ UNCHANGED <<earnings, held, returned, income, window, lastDay, formVars, row, boundVars>>

(* A second WITHDRAWAL_REVERSAL row would break the unique index and undo    *)
(* the whole transaction.                                                  *)
ReturnEarnings(d) ==
  /\ desk[d] = "return"
  /\ Sit(d, "idle")
  /\ IF row[d] \in returned
     THEN UNCHANGED <<earnings, returned>>
     ELSE /\ earnings' = [earnings EXCEPT ![OwnerOf[row[d]]] = @ + held[row[d]]]
          /\ returned' = returned \union {row[d]}
  /\ UNCHANGED <<status, held, income, window, lastDay, formVars, row, boundVars>>

MarkPayoutPaidUnguarded(d) ==   \* faulty: the update is by id alone
  /\ desk[d] = "pay"
  /\ Sit(d, "idle")
  /\ status' = [status EXCEPT ![row[d]] = "PAID"]
  /\ UNCHANGED <<earnings, held, returned, income, window, lastDay, formVars, row, boundVars>>

(* markPayoutPaid: nothing moves in the ledger.                            *)
MarkPayoutPaid(d) ==
  /\ desk[d] = "pay"
  /\ Sit(d, "idle")
  /\ status' = IF status[row[d]] = "REQUESTED"
               THEN [status EXCEPT ![row[d]] = "PAID"] ELSE status
  /\ UNCHANGED <<earnings, held, returned, income, window, lastDay, formVars, row, boundVars>>

(* An administrator's request dies between two transactions.               *)
Crash(d) ==
  /\ desk[d] # "idle"
  /\ crashes < MaxCrashes
  /\ crashes' = crashes + 1
  /\ Sit(d, "idle")
  /\ UNCHANGED <<rowVars, income, window, lastDay, formVars, row, payments>>

SetPayoutWindow(a, override) ==
  /\ window' = [window EXCEPT ![a] = override]
  /\ UNCHANGED <<rowVars, income, lastDay, formVars, deskVars, boundVars>>

Midnight ==
  /\ lastDay' = ~lastDay
  /\ UNCHANGED <<rowVars, income, window, formVars, deskVars, boundVars>>
-----------------------------------------------------------------------------
PaymentStep ==
  \E a \in Analysts, n \in Sizes :
    CreditAnalystEarning(a, n) \/ ReverseAnalystEarning(a, n)

FormStep(f) ==
  \/ \E n \in Sizes : RequestWithdrawal(f, n)
  \/ CheckWithdrawal(f) \/ HoldEarnings(f)

DeskStep(d) ==
  \/ \E f \in Forms : ReadPayout(d, f)
  \/ RejectPayout(d) \/ ReturnEarnings(d) \/ MarkPayoutPaid(d) \/ Crash(d)

Next ==
  \/ PaymentStep
  \/ \E f \in Forms : FormStep(f)
  \/ \E d \in Desks : DeskStep(d)
  \/ \E a \in Analysts, override \in Windows : SetPayoutWindow(a, override)
  \/ Midnight

Spec == Init /\ [][Next]_vars
-----------------------------------------------------------------------------
(* Whatever forms and administrators overlap, a withdrawal is taken from     *)
(* money that is there and ends once, paid or given back (service.ts:21-32).  *)
PlaceOf(f) ==
  IF f \in returned THEN "returned"
  ELSE IF status[f] = "PAID" THEN "paid"
  ELSE IF status[f] = "NONE" THEN "account"
  ELSE "held"

Account == INSTANCE EarningsAccount WITH
  Accounts <- Analysts, Requests <- Forms,
  available <- earnings, amount <- held, place <- [f \in Forms |-> PlaceOf(f)]

WithdrawalsKeepAccount == Account!Spec

(* Every tetri of an analyst's income is on the account, held by an open     *)
(* request, on its way back or paid out (service.ts:21-32): the total that   *)
(* ledger.ts caches cannot drift from what payments and withdrawals moved.  *)
Away(a) == {f \in Forms : OwnerOf[f] = a /\ status[f] # "NONE" /\ f \notin returned}

EarningsAccountedFor ==
  \A a \in Analysts :
    earnings[a] + MapThenSumSet(LAMBDA f : held[f], Away(a)) = income[a]

Missing == {f \in Forms : status[f] = "REJECTED" /\ f \notin returned}

DesksIdle == \A d \in Desks : desk[d] = "idle"

(* Only a request that died between its two transactions keeps a refused     *)
(* amount, and each at most one (service.ts:253-270): otherwise a refusal    *)
(* puts the earnings straight back (service.ts:31-32).                     *)
OnlyCrashesKeepEarnings == DesksIdle => Cardinality(Missing) <= crashes
=============================================================================
