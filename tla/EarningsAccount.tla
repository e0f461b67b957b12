--------------------------- MODULE EarningsAccount ---------------------------
(***************************************************************************)
(* What the withdrawals promise an analyst: an amount that is asked for      *)
(* leaves the account at once, and then either is paid out or comes back,   *)
(* one of the two and only once.  Payments of subscribers come in and may   *)
(* be taken back, which alone can leave a debt.                            *)
(***************************************************************************)
EXTENDS Integers

CONSTANTS
  Accounts,     \* analysts
  Requests,     \* withdrawals that may be asked for
  OwnerOf,      \* the account a withdrawal is taken from
  Sizes         \* amounts that may move

VARIABLES
  available,    \* what an account may still ask for
  amount,       \* what a withdrawal has taken
  place         \* where that amount is now

vars == <<available, amount, place>>

Init ==
  /\ available = [a \in Accounts |-> 0]
  /\ amount = [r \in Requests |-> 0]
  /\ place = [r \in Requests |-> "account"]

Earn(a, n) ==
  /\ available' = [available EXCEPT ![a] = @ + n]
  /\ UNCHANGED <<amount, place>>

TakeBack(a, n) ==
  /\ available' = [available EXCEPT ![a] = @ - n]
  /\ UNCHANGED <<amount, place>>

Hold(r, n) ==
  /\ place[r] = "account"
  /\ n <= available[OwnerOf[r]]
  /\ available' = [available EXCEPT ![OwnerOf[r]] = @ - n]
  /\ amount' = [amount EXCEPT ![r] = n]
  /\ place' = [place EXCEPT ![r] = "held"]

PayOut(r) ==
  /\ place[r] = "held"
  /\ place' = [place EXCEPT ![r] = "paid"]
  /\ UNCHANGED <<available, amount>>

GiveBack(r) ==
  /\ place[r] = "held"
  /\ available' = [available EXCEPT ![OwnerOf[r]] = @ + amount[r]]
  /\ place' = [place EXCEPT ![r] = "returned"]
  /\ UNCHANGED amount

Next ==
  \/ \E a \in Accounts, n \in Sizes : Earn(a, n) \/ TakeBack(a, n)
  \/ \E r \in Requests : \/ \E n \in Sizes : Hold(r, n)
                         \/ PayOut(r) \/ GiveBack(r)

Spec == Init /\ [][Next]_vars
=============================================================================
