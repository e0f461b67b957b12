----------------------------- MODULE PayoutPages -----------------------------
(***************************************************************************)
(* What the pages say of a withdrawal: the analyst's earnings page, with    *)
(* the form behind its button, and the administrators' queue and windows.   *)
(* A page reads the rows and the clock when it is drawn; the action that a   *)
(* form posts to reads them again and may disagree.                        *)
(*                                                                         *)
(* A character of an account number is its value: 0..9 for a digit, 10..35   *)
(* for a letter of either case.                                            *)
(***************************************************************************)
EXTENDS Payouts, Sequences, SequencesExt

-----------------------------------------------------------------------------
(* Account numbers.                                                        *)

Separator == 36   \* anything that is neither, in what was typed
Star == 37

NormaliseIban(typed) == SelectSeq(typed, LAMBDA c : c # Separator)

G == 16
E == 14

(* The country and the check digits behind the rest, as one number.         *)
Remainder(iban) ==
  FoldLeft(LAMBDA r, c : (r * (IF c < 10 THEN 10 ELSE 100) + c) % 97, 0,
           SubSeq(iban, 5, Len(iban)) \o SubSeq(iban, 1, 4))

IbanValid(typed) ==
  LET iban == NormaliseIban(typed) IN
  /\ Len(iban) = 22
  /\ iban[1] = G /\ iban[2] = E /\ iban[3] < 10 /\ iban[4] < 10
  /\ Remainder(iban) = 1

MaskIban(typed) ==
  LET iban == NormaliseIban(typed) n == Len(iban) IN
  IF n < 8 THEN [i \in 1..n |-> Star]
  ELSE [i \in 1..n |-> IF i \in 5..(n - 4) THEN Star ELSE iban[i]]

(* The form in which the administrator copies it into the bank.              *)
GroupIban(iban) ==
  FlattenSeq([i \in 1..Len(iban) |->
    IF i % 4 = 0 /\ i < Len(iban) THEN <<iban[i], Separator>> ELSE <<iban[i]>>])
-----------------------------------------------------------------------------
(* requestWithdrawalAction and checkWithdrawal, as the answer to a request   *)
(* that is made now.                                                       *)

Refusal(a, n, iban) ==
  IF HasPendingRequest(a) THEN "PENDING_REQUEST_EXISTS"
  ELSE IF ~IsWithdrawalWindowOpen(window[a])
       THEN IF window[a] = "CLOSED" THEN "WINDOW_HELD" ELSE "WINDOW_CLOSED"
  ELSE IF n < Minimum THEN "BELOW_MINIMUM"
  ELSE IF n > earnings[a] THEN "INSUFFICIENT_EARNINGS"
  ELSE IF ~IbanValid(iban) THEN "INVALID_IBAN"
  ELSE "none"
-----------------------------------------------------------------------------
(* The earnings page.                                                      *)

Listed(a, statuses) == {f \in Forms : OwnerOf[f] = a /\ status[f] \in statuses}

(* The dialog, or the notice that stands where its button would.            *)
WithdrawDialog(a) ==
  IF window[a] = "CLOSED" THEN "WINDOW_HELD"
  ELSE IF ~IsWithdrawalWindowOpen(window[a]) THEN "WINDOW_CLOSED"
  ELSE IF earnings[a] < Minimum THEN "BELOW_MINIMUM"
  ELSE "form"

WithdrawCard(a) ==
  IF Listed(a, {"REQUESTED"}) # {} THEN "PENDING_REQUEST_EXISTS" ELSE WithdrawDialog(a)

(* The bounds of the amount field.                                         *)
WithdrawForm(a) == Minimum..earnings[a]

WindowLine(a) ==
  IF window[a] = "OPEN" THEN "open for you"
  ELSE IF window[a] = "CLOSED" THEN "held"
  ELSE IF IsWithdrawalWindowOpen(window[a]) THEN "today" ELSE "next window"

(* Tickets and subscriptions, summed over the credits and their reversals.   *)
EarnedFrom(a) == income[a]
-----------------------------------------------------------------------------
(* The administrators' pages.                                              *)

(* The open list of /admin/payouts, and the queue of /admin, which shows     *)
(* the oldest of the same rows.                                            *)
OpenPayouts == {f \in Forms : status[f] = "REQUESTED"}
PayoutsQueue == OpenPayouts

History == {f \in Forms : status[f] \notin {"NONE", "REQUESTED"}}

(* A decision wipes the sealed account; a rotated key no longer opens it.   *)
RevealPayoutIban(f, rotated) == status[f] = "REQUESTED" /\ ~rotated

(* Who cannot be paid can only be refused.                                 *)
DecidePayoutForm(f, rotated) ==
  IF RevealPayoutIban(f, rotated) THEN {"pay", "reject"} ELSE {"reject"}

CanWithdrawNow(a) == IsWithdrawalWindowOpen(window[a])

(* Reasons are told apart by their length.                                 *)
PayoutWindowForm(a, note) ==
  {choice \in Overrides \X (0..4) :
     /\ choice[1] # window[a] \/ (choice[1] # "SCHEDULE" /\ choice[2] # note)
     /\ choice[1] # "SCHEDULE" => choice[2] >= 3}

(* payoutWindowSchema                                                      *)
WindowAccepted(choice) == choice[1] = "SCHEDULE" \/ choice[2] >= 3
-----------------------------------------------------------------------------
Example ==   \* GE95TB0000000123456789, of the form and of the refusal
  <<16, 14, 9, 5, 29, 11, 0, 0, 0, 0, 0, 0, 0, 1, 2, 3, 4, 5, 6, 7, 8, 9>>

SameKind(c, d) == (c < 10) = (d < 10)

Swapped(s, i) == [s EXCEPT ![i] = s[i + 1], ![i + 1] = s[i]]

(* The example is a valid account, no single mistyped character and no      *)
(* swapped neighbours pass as one, and the groups the administrator copies   *)
(* are the same account under the same mask.                               *)
IbansAgree ==
  /\ IbanValid(Example)
  /\ \A i \in 3..22, c \in 0..35 :
       c # Example[i] /\ SameKind(c, Example[i]) => ~IbanValid([Example EXCEPT ![i] = c])
  /\ \A i \in {3} \union 5..21 :
       Example[i] # Example[i + 1] /\ SameKind(Example[i], Example[i + 1]) =>
         ~IbanValid(Swapped(Example, i))
  /\ IbanValid(GroupIban(Example))
  /\ NormaliseIban(GroupIban(Example)) = Example
  /\ MaskIban(GroupIban(Example)) = MaskIban(Example)
  /\ {i \in 1..22 : MaskIban(Example)[i] # Star} = 1..4 \union 19..22

ValidAccounts == {iban \in {Example} : IbanValid(iban)}

(* A notice is the refusal a request would get; with a valid account, a form *)
(* takes the amounts that would be granted and no others.                  *)
NoticeIsRefusal(a) ==
  \A n \in 0..4, iban \in ValidAccounts :
    LET answer == Refusal(a, n, iban) shown == WithdrawCard(a) IN
    CASE shown = "form" -> (answer = "none") = (n \in WithdrawForm(a))
      [] shown = "BELOW_MINIMUM" -> answer \in {"BELOW_MINIMUM", "INSUFFICIENT_EARNINGS"}
      [] OTHER -> answer = shown

(* The balance, what waits and what was paid add up to what was earned,     *)
(* unless a refusal has not given its money back yet.                      *)
FiguresAddUp(a) ==
  (Missing = {}) =>
    earnings[a] + MapThenSumSet(LAMBDA f : held[f], Listed(a, {"REQUESTED", "PAID"}))
      = EarnedFrom(a)

WindowAgrees(a) ==
  /\ CanWithdrawNow(a) = (WindowLine(a) \in {"open for you", "today"})
  /\ CanWithdrawNow(a) = (WithdrawDialog(a) \in {"BELOW_MINIMUM", "form"})
  /\ \A note \in 0..4 :
       /\ \A choice \in PayoutWindowForm(a, note) : WindowAccepted(choice)
       /\ window[a] # "OPEN" => \E choice \in PayoutWindowForm(a, note) : choice[1] = "OPEN"

(* An analyst is told to wait for a request exactly while an administrator  *)
(* has it to decide, and what one is deciding was offered to him.           *)
QueueDecides ==
  /\ \A a \in Analysts :
       (WithdrawCard(a) = "PENDING_REQUEST_EXISTS") = (\E f \in PayoutsQueue : OwnerOf[f] = a)
  /\ \A d \in Desks : desk[d] \in {"pay", "reject"} => row[d] \in OpenPayouts \union History
  /\ \A f \in OpenPayouts : DecidePayoutForm(f, FALSE) = {"pay", "reject"}
  /\ \A f \in History : ~RevealPayoutIban(f, FALSE)

(* What the pages say is what the actions do: the notice an analyst reads is  *)
(* the refusal his request would get (rules.ts:157-193), his figures add up, *)
(* and the line an administrator judges a window by is what the author sees  *)
(* (admin/payouts/page.tsx:302-304).                                       *)
PayoutPagesAgree ==
  /\ \A a \in Analysts : NoticeIsRefusal(a) /\ FiguresAddUp(a) /\ WindowAgrees(a)
  /\ QueueDecides
=============================================================================
