--------------------------- MODULE AccountClosing ---------------------------
(***************************************************************************)
(* Closing an account over the subscriptions of its owner, one person who   *)
(* holds all of them: closeAccountAction cancels what it found running, one *)
(* subscription after the other, and only then marks the account.  Checkouts *)
(* opened before it go on: nothing asks for the account's status again.     *)
(***************************************************************************)
EXTENDS Subscriptions

ASSUME ClosingAssumption == \A found \in SUBSET Subs : None # found

VARIABLES
  account,       \* User.status: ACTIVE or DELETED
  closing,       \* what the request has still to cancel, or None
  foundRunning   \* history: rows the request that closed it had found running

closingVars == <<account, closing, foundRunning>>
systemVars == <<allVars, closingVars>>

ClosingInit == AppInit /\ account = "ACTIVE" /\ closing = None /\ foundRunning = {}

Running == {s \in Subs : subs[s].status = "ACTIVE"}

StartClosing ==
  /\ account = "ACTIVE" /\ closing = None
  /\ closing' = Running /\ foundRunning' = Running
  /\ UNCHANGED <<allVars, account>>

InHand == {s \in Subs : canceling[s] # "no"}

(* The next one is read again; one that has ended since fails the closing.  *)
CancelNext(s) ==
  /\ closing # None /\ InHand = {} /\ s \in closing
  /\ \/ CancelSubscription(s) /\ UNCHANGED closingVars
     \/ /\ subs[s].status # "ACTIVE"
        /\ closing' = None
        /\ UNCHANGED <<allVars, account, foundRunning>>

CloseRefusedGoesOn(s) ==   \* faulty: a calendar that would not stop is passed over
  /\ closing # None
  /\ \/ StopBeforeCancel(s) /\ closing' = IF canceling'[s] = "no" THEN closing \ {s} ELSE closing
     \/ WriteCancellation(s) /\ closing' = closing \ {s}
  /\ UNCHANGED <<account, foundRunning>>

(* A refusal of the gateway is thrown, and the account stays open.         *)
CancelFound(s) ==
  /\ closing # None
  /\ \/ StopBeforeCancel(s) /\ closing' = IF canceling'[s] = "no" THEN None ELSE closing
     \/ WriteCancellation(s) /\ closing' = closing \ {s}
  /\ UNCHANGED <<account, foundRunning>>

MarkDeleted ==
  /\ closing = {}
  /\ account' = "DELETED" /\ closing' = None
  /\ UNCHANGED <<allVars, foundRunning>>

(* The process dies on the way; what was cancelled stays cancelled.        *)
DieClosing ==
  /\ closing # None /\ "crash" \in Refusals
  /\ closing' = None
  /\ canceling' = [s \in Subs |-> "no"]
  /\ UNCHANGED <<vars, form, opened, lapsed, stopped, settled, calendarSwept,
                 account, foundRunning>>

(* A checkout is begun by somebody signed in; the closing itself does not   *)
(* last a day.                                                             *)
Around ==
  \/ WebhookStep /\ UNCHANGED appVars /\ (now' # now => closing = None)
  \/ \E o \in Checkouts : CheckoutStep(o) /\ (form[o] = "closed" => account = "ACTIVE")
  \/ \E c \in Closers, s \in Subs : CloseLapsed(c, s)
  \/ \E s \in Subs : closing = None /\ account = "ACTIVE" /\ CancelStep(s)
  \/ \E r \in reports : ActOnReport(r)
  \/ CronStep

ClosingNext ==
  \/ Around /\ UNCHANGED closingVars
  \/ StartClosing \/ MarkDeleted \/ DieClosing
  \/ \E s \in Subs : CancelNext(s) \/ CancelFound(s)

ClosingSpec == ClosingInit /\ [][ClosingNext]_systemVars
-----------------------------------------------------------------------------
(* A closed account is not charged again for a subscription its closing had *)
(* found running: it was stopped at the gateway first, and a refusal or a   *)
(* crash kept the account open (account.ts:120-124).  A calendar a decline  *)
(* had struck from the row is left to the route's own stop.                *)
ClosingStopsCharges ==
  [][\A r \in Orders :
       /\ IsRenewal(r) /\ gw[r] = "none" /\ account = "DELETED"
       /\ SubOf[r] \in foundRunning /\ ~Declined(SubOf[r])
       => gw'[r] = "none"]_systemVars

(* "Closing an account must never leave a card being billed for a login     *)
(* that no longer works" (account.ts:121-124).                             *)
ClosedNeverBilled ==
  [][\A r \in Orders :
       IsRenewal(r) /\ gw[r] = "none" /\ account = "DELETED" => gw'[r] = "none"]_systemVars
=============================================================================
