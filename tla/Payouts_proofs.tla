--------------------------- MODULE Payouts_proofs ---------------------------
(***************************************************************************)
(* Proofs about withdrawals: types, that Payouts implements                 *)
(* EarningsAccount, and that a crash keeps one amount at most, for any       *)
(* number of analysts, forms and administrators and any number of crashes. *)
(***************************************************************************)
EXTENDS PayoutPages, FiniteSetTheorems, SumTheorems, TLAPS

(* What the guarded updates rest on: a form that is not done has no row yet  *)
(* and asks for an amount that exists, and only refusals have been given    *)
(* back.                                                                   *)
Claims ==
  /\ \A f \in Forms : form[f] # "done" => status[f] = "NONE"
  /\ \A f \in Forms : form[f] \in {"opened", "checked"} => asked[f] \in Sizes
  /\ \A f \in returned : status[f] = "REJECTED"

IInv == PayoutsTypeOK /\ Claims

LEMMA InitIInv == Init => IInv
  BY PayoutsAssumption DEF Init, IInv, PayoutsTypeOK, Claims, Overrides, PayoutStatuses
-----------------------------------------------------------------------------
(* Payments of subscribers touch the totals alone.                         *)
LEMMA PaymentKeeps == IInv /\ PaymentStep => IInv'
<1> SUFFICES ASSUME IInv, NEW a \in Analysts, NEW n \in Sizes,
                    CreditAnalystEarning(a, n) \/ ReverseAnalystEarning(a, n)
             PROVE  IInv'
  BY DEF PaymentStep
<1> n \in Int
  BY PayoutsAssumption
<1>1. earnings' \in [Analysts -> Int] /\ income' \in [Analysts -> Int] /\ payments' \in Nat
  BY DEF IInv, PayoutsTypeOK, CreditAnalystEarning, ReverseAnalystEarning
<1>2. UNCHANGED <<status, held, returned, window, lastDay, formVars, deskVars, crashes>>
  BY DEF CreditAnalystEarning, ReverseAnalystEarning
<1> QED
  BY <1>1, <1>2 DEF IInv, PayoutsTypeOK, Claims, formVars, deskVars

(* A form takes its money and its row in one transaction.                  *)
LEMMA FormKeeps == ASSUME IInv, NEW f \in Forms, FormStep(f) PROVE IInv'
<1> USE DEF rowVars, deskVars, boundVars
<1>1. ASSUME NEW n \in Sizes, RequestWithdrawal(f, n) PROVE IInv'
  <2> n \in Nat
    BY PayoutsAssumption
  <2>1. IsWithdrawalWindowOpen(window[OwnerOf[f]]) \in BOOLEAN
    BY DEF IsWithdrawalWindowOpen, IInv, PayoutsTypeOK
  <2>2. PayoutsTypeOK'
    BY <1>1, <2>1 DEF RequestWithdrawal, IInv, PayoutsTypeOK
  <2>3. Claims'
    BY <1>1 DEF RequestWithdrawal, IInv, PayoutsTypeOK, Claims
  <2> QED
    BY <2>2, <2>3 DEF IInv
<1>2. CASE CheckWithdrawal(f)
  BY <1>2 DEF CheckWithdrawal, IInv, PayoutsTypeOK, Claims
<1>3. CASE HoldEarnings(f)
  <2>1. CASE asked[f] <= earnings[OwnerOf[f]]
    <3>1. PayoutsTypeOK'
      BY <1>3, <2>1, PayoutsAssumption
      DEF HoldEarnings, Hold, IInv, PayoutsTypeOK, Claims, PayoutStatuses
    <3>2. Claims'
      BY <1>3, <2>1 DEF HoldEarnings, Hold, IInv, PayoutsTypeOK, Claims
    <3> QED
      BY <3>1, <3>2 DEF IInv
  <2>2. CASE ~(asked[f] <= earnings[OwnerOf[f]])
    BY <1>3, <2>2 DEF HoldEarnings, IInv, PayoutsTypeOK, Claims
  <2> QED
    BY <2>1, <2>2
<1> QED
  BY <1>1, <1>2, <1>3 DEF FormStep

(* A row that has been decided stays so, and gives back at most once.      *)
LEMMA DeskKeeps == ASSUME IInv, NEW d \in Desks, DeskStep(d) PROVE IInv'
<1> USE DEF rowVars, formVars, boundVars
<1>1. ASSUME NEW f \in Forms, ReadPayout(d, f) PROVE IInv'
  BY <1>1 DEF ReadPayout, Sit, IInv, PayoutsTypeOK, Claims
<1>2. CASE RejectPayout(d)
  BY <1>2 DEF RejectPayout, Sit, IInv, PayoutsTypeOK, Claims, PayoutStatuses
<1>3. CASE ReturnEarnings(d)
  <2>1. earnings' \in [Analysts -> Int]
    BY <1>3, PayoutsAssumption DEF ReturnEarnings, IInv, PayoutsTypeOK
  <2>2. returned' \subseteq Forms /\ \A f \in returned' : status[f] = "REJECTED"
    BY <1>3 DEF ReturnEarnings, IInv, PayoutsTypeOK, Claims
  <2> QED
    BY <1>3, <2>1, <2>2 DEF ReturnEarnings, Sit, IInv, PayoutsTypeOK, Claims
<1>4. CASE MarkPayoutPaid(d)
  BY <1>4 DEF MarkPayoutPaid, Sit, IInv, PayoutsTypeOK, Claims, PayoutStatuses
<1>5. CASE Crash(d)
  BY <1>5 DEF Crash, Sit, IInv, PayoutsTypeOK, Claims
<1> QED
  BY <1>1, <1>2, <1>3, <1>4, <1>5 DEF DeskStep

LEMMA NextIInv == IInv /\ [Next]_vars => IInv'
<1> SUFFICES ASSUME IInv, [Next]_vars PROVE IInv'
  OBVIOUS
<1>1. CASE PaymentStep
  BY <1>1, PaymentKeeps
<1>2. CASE \E f \in Forms : FormStep(f)
  BY <1>2, FormKeeps
<1>3. CASE \E d \in Desks : DeskStep(d)
  BY <1>3, DeskKeeps
<1>4. CASE \E a \in Analysts, override \in Windows : SetPayoutWindow(a, override)
  BY <1>4, PayoutsAssumption
  DEF SetPayoutWindow, IInv, PayoutsTypeOK, Claims, rowVars, formVars, deskVars, boundVars
<1>5. CASE Midnight
  BY <1>5 DEF Midnight, IInv, PayoutsTypeOK, Claims, rowVars, formVars, deskVars, boundVars
<1>6. CASE UNCHANGED vars
  BY <1>6 DEF vars, IInv, PayoutsTypeOK, Claims, rowVars, formVars, deskVars, boundVars
<1> QED
  BY <1>1, <1>2, <1>3, <1>4, <1>5, <1>6 DEF Next

(* Types, and with them that who is about to give money back holds a          *)
(* refusal that still stands (service.ts:253-263, 312-325).                 *)
THEOREM PayoutsTyping == Spec => []PayoutsTypeOK
<1>1. IInv => PayoutsTypeOK
  BY DEF IInv
<1> QED
  BY <1>1, InitIInv, NextIInv, PTL DEF Spec
-----------------------------------------------------------------------------
(* What each step of the program is in the account.                        *)

LEMMA InitImplements == Init => Account!Init
  BY DEF Init, Account!Init, PlaceOf

LEMMA PaymentImplements == IInv /\ PaymentStep => Account!Next
<1> SUFFICES ASSUME IInv, NEW a \in Analysts, NEW n \in Sizes,
                    CreditAnalystEarning(a, n) \/ ReverseAnalystEarning(a, n)
             PROVE  Account!Next
  BY DEF PaymentStep
<1>1. held' = held /\ [f \in Forms |-> PlaceOf(f)]' = [f \in Forms |-> PlaceOf(f)]
  BY DEF CreditAnalystEarning, ReverseAnalystEarning, PlaceOf
<1>2. Account!Earn(a, n) \/ Account!TakeBack(a, n)
  BY <1>1 DEF CreditAnalystEarning, ReverseAnalystEarning, Account!Earn, Account!TakeBack
<1> QED
  BY <1>2 DEF Account!Next

(* The places of the withdrawals, when only one of them may have moved.     *)
LEMMA OnePlaceMoves ==
  ASSUME NEW f \in Forms, \A g \in Forms \ {f} : PlaceOf(g)' = PlaceOf(g)
  PROVE  [g \in Forms |-> PlaceOf(g)]'
           = [[g \in Forms |-> PlaceOf(g)] EXCEPT ![f] = PlaceOf(f)']
  OBVIOUS

LEMMA FormImplements ==
  ASSUME IInv, NEW f \in Forms, FormStep(f) PROVE [Account!Next]_(Account!vars)
<1>1. CASE UNCHANGED rowVars
  BY <1>1 DEF rowVars, Account!vars, PlaceOf
<1>2. CASE HoldEarnings(f) /\ asked[f] <= earnings[OwnerOf[f]]
  <2>1. form[f] = "checked" /\ Hold(f)
    BY <1>2 DEF HoldEarnings
  <2>2. asked[f] \in Sizes /\ status[f] = "NONE" /\ f \notin returned
    BY <2>1 DEF IInv, Claims, PayoutsTypeOK
  <2>3. PlaceOf(f) = "account" /\ PlaceOf(f)' = "held"
    BY <2>1, <2>2 DEF PlaceOf, Hold, IInv, PayoutsTypeOK
  <2>4. \A g \in Forms \ {f} : PlaceOf(g)' = PlaceOf(g)
    BY <2>1 DEF PlaceOf, Hold, IInv, PayoutsTypeOK
  <2>5. [g \in Forms |-> PlaceOf(g)]' = [[g \in Forms |-> PlaceOf(g)] EXCEPT ![f] = "held"]
    BY <2>3, <2>4, OnePlaceMoves
  <2>6. Account!Hold(f, asked[f])
    BY <1>2, <2>1, <2>3, <2>5 DEF Hold, Account!Hold
  <2> QED
    BY <2>2, <2>6 DEF Account!Next
<1> QED
  BY <1>1, <1>2 DEF FormStep, RequestWithdrawal, CheckWithdrawal, HoldEarnings, rowVars

LEMMA DeskImplements ==
  ASSUME IInv, NEW d \in Desks, DeskStep(d) PROVE [Account!Next]_(Account!vars)
<1>0. PICK f \in Forms : f = row[d]
  BY DEF IInv, PayoutsTypeOK
<1>1. CASE UNCHANGED rowVars
  BY <1>1 DEF rowVars, Account!vars, PlaceOf
<1>2. CASE RejectPayout(d)
  <2>1. UNCHANGED <<earnings, held, returned>>
    BY <1>2 DEF RejectPayout
  <2>2. \A g \in Forms : PlaceOf(g)' = PlaceOf(g)
    BY <1>2, <1>0 DEF RejectPayout, PlaceOf, IInv, PayoutsTypeOK
  <2> QED
    BY <2>1, <2>2 DEF Account!vars
<1>3. CASE ReturnEarnings(d) /\ f \notin returned
  <2>1. PlaceOf(f) = "held" /\ PlaceOf(f)' = "returned"
    BY <1>3, <1>0 DEF ReturnEarnings, PlaceOf, IInv, PayoutsTypeOK
  <2>2. \A g \in Forms \ {f} : PlaceOf(g)' = PlaceOf(g)
    BY <1>0, <1>3 DEF ReturnEarnings, PlaceOf
  <2>3. [g \in Forms |-> PlaceOf(g)]' = [[g \in Forms |-> PlaceOf(g)] EXCEPT ![f] = "returned"]
    BY <1>0, <2>1, <2>2, OnePlaceMoves
  <2>4. Account!GiveBack(f)
    BY <1>0, <1>3, <2>1, <2>3 DEF ReturnEarnings, Account!GiveBack
  <2> QED
    BY <1>0, <2>4 DEF Account!Next
<1>4. CASE MarkPayoutPaid(d) /\ status[f] = "REQUESTED"
  <2>1. f \notin returned
    BY <1>4 DEF IInv, Claims
  <2>2. PlaceOf(f) = "held" /\ PlaceOf(f)' = "paid"
    BY <1>4, <1>0, <2>1 DEF MarkPayoutPaid, PlaceOf, IInv, PayoutsTypeOK
  <2>3. \A g \in Forms \ {f} : PlaceOf(g)' = PlaceOf(g)
    BY <1>0, <1>4 DEF MarkPayoutPaid, PlaceOf, IInv, PayoutsTypeOK
  <2>4. [g \in Forms |-> PlaceOf(g)]' = [[g \in Forms |-> PlaceOf(g)] EXCEPT ![f] = "paid"]
    BY <1>0, <2>2, <2>3, OnePlaceMoves
  <2>5. Account!PayOut(f)
    BY <1>0, <1>4, <2>2, <2>4 DEF MarkPayoutPaid, Account!PayOut
  <2> QED
    BY <1>0, <2>5 DEF Account!Next
<1> QED
  BY <1>0, <1>1, <1>2, <1>3, <1>4
  DEF DeskStep, ReadPayout, ReturnEarnings, MarkPayoutPaid, Crash, rowVars

LEMMA NextImplements == IInv /\ [Next]_vars => [Account!Next]_(Account!vars)
<1> SUFFICES ASSUME IInv, [Next]_vars PROVE [Account!Next]_(Account!vars)
  OBVIOUS
<1>1. CASE PaymentStep
  BY <1>1, PaymentImplements
<1>2. CASE \E f \in Forms : FormStep(f)
  BY <1>2, FormImplements
<1>3. CASE \E d \in Desks : DeskStep(d)
  BY <1>3, DeskImplements
<1>4. CASE UNCHANGED rowVars
  BY <1>4 DEF rowVars, Account!vars, PlaceOf
<1> QED
  BY <1>1, <1>2, <1>3, <1>4 DEF Next, SetPayoutWindow, Midnight, vars

(* However forms, administrators and crashes overlap, a withdrawal takes      *)
(* only money that is there, and it is paid out or given back, never both   *)
(* and never twice (service.ts:21-32).                                     *)
THEOREM AccountImplemented == Spec => WithdrawalsKeepAccount
<1>1. Init => Account!Init
  BY InitImplements
<1>2. IInv /\ [Next]_vars => [Account!Next]_(Account!vars)
  BY NextImplements
<1> QED
  BY <1>1, <1>2, InitIInv, NextIInv, PTL DEF Spec, WithdrawalsKeepAccount, Account!Spec
-----------------------------------------------------------------------------
(* Refusals whose money nobody is about to give back.  OnlyCrashesKeepEarnings *)
(* speaks of idle desks alone and is not inductive; what is so counts the      *)
(* orphans in every state.                                                  *)
Orphans ==
  {f \in Missing : \A d \in Desks : ~(desk[d] = "return" /\ row[d] = f)}

FewOrphans == IsFiniteSet(Orphans) /\ Cardinality(Orphans) <= crashes

LEMMA OneMore ==
  ASSUME NEW S, IsFiniteSet(S), NEW x, NEW T, T \subseteq S \union {x}
  PROVE  IsFiniteSet(T) /\ Cardinality(T) <= Cardinality(S) + 1
<1>1. IsFiniteSet(S \union {x}) /\ Cardinality(S \union {x}) <= Cardinality(S) + 1
  <2>1. IsFiniteSet(S \union {x}) /\ Cardinality(S) \in Nat
        /\ Cardinality(S \union {x}) = IF x \in S THEN Cardinality(S) ELSE Cardinality(S) + 1
    BY FS_AddElement, FS_CardinalityType
  <2> QED
    BY <2>1
<1>2. IsFiniteSet(T) /\ Cardinality(T) <= Cardinality(S \union {x})
  BY <1>1, FS_Subset
<1>3. Cardinality(S) \in Nat /\ Cardinality(T) \in Nat /\ Cardinality(S \union {x}) \in Nat
  BY <1>1, <1>2, FS_CardinalityType
<1> QED
  BY <1>1, <1>2, <1>3

LEMMA NoMoreOrphans ==
  ASSUME FewOrphans, Orphans' \subseteq Orphans, crashes' = crashes, crashes \in Nat
  PROVE  FewOrphans'
<1>1. IsFiniteSet(Orphans') /\ Cardinality(Orphans') <= Cardinality(Orphans)
  BY FS_Subset DEF FewOrphans
<1>2. Cardinality(Orphans') \in Nat /\ Cardinality(Orphans) \in Nat
  BY <1>1, FS_CardinalityType DEF FewOrphans
<1> QED
  BY <1>1, <1>2 DEF FewOrphans

(* A desk makes an orphan only by dying, and then of the row it held.        *)
LEMMA DeskOrphans ==
  ASSUME IInv, FewOrphans, NEW d \in Desks, DeskStep(d) PROVE FewOrphans'
<1>0. crashes \in Nat /\ desk \in [Desks -> {"idle", "reject", "pay", "return"}]
      /\ row \in [Desks -> Forms] /\ status \in [Forms -> PayoutStatuses \union {"NONE"}]
  BY DEF IInv, PayoutsTypeOK
<1>1. ASSUME NEW f \in Forms, ReadPayout(d, f) PROVE FewOrphans'
  <2>1. Orphans' \subseteq Orphans
    BY <1>0, <1>1 DEF ReadPayout, Sit, Orphans, Missing, rowVars
  <2> QED
    BY <1>0, <1>1, <2>1, NoMoreOrphans DEF ReadPayout, boundVars
<1>2. CASE RejectPayout(d)
  <2>1. Orphans' \subseteq Orphans
    BY <1>0, <1>2 DEF RejectPayout, Sit, Orphans, Missing
  <2> QED
    BY <1>0, <1>2, <2>1, NoMoreOrphans DEF RejectPayout, boundVars
<1>3. CASE ReturnEarnings(d)
  <2>1. Orphans' \subseteq Orphans
    BY <1>0, <1>3 DEF ReturnEarnings, Sit, Orphans, Missing
  <2> QED
    BY <1>0, <1>3, <2>1, NoMoreOrphans DEF ReturnEarnings, boundVars
<1>4. CASE MarkPayoutPaid(d)
  <2>1. Orphans' \subseteq Orphans
    BY <1>0, <1>4 DEF MarkPayoutPaid, Sit, Orphans, Missing
  <2> QED
    BY <1>0, <1>4, <2>1, NoMoreOrphans DEF MarkPayoutPaid, boundVars
<1>5. CASE Crash(d)
  <2>1. Orphans' \subseteq Orphans \union {row[d]}
    BY <1>0, <1>5 DEF Crash, Sit, Orphans, Missing, rowVars
  <2>2. IsFiniteSet(Orphans') /\ Cardinality(Orphans') <= Cardinality(Orphans) + 1
    BY <2>1, OneMore DEF FewOrphans
  <2>3. Cardinality(Orphans') \in Nat /\ Cardinality(Orphans) \in Nat
    BY <2>2, FS_CardinalityType DEF FewOrphans
  <2>4. crashes' = crashes + 1
    BY <1>5 DEF Crash
  <2> QED
    BY <1>0, <2>2, <2>3, <2>4 DEF FewOrphans
<1> QED
  BY <1>1, <1>2, <1>3, <1>4, <1>5 DEF DeskStep

LEMMA NextOrphans == IInv /\ FewOrphans /\ [Next]_vars => FewOrphans'
<1> SUFFICES ASSUME IInv, FewOrphans, [Next]_vars PROVE FewOrphans'
  OBVIOUS
<1>0. crashes \in Nat /\ status \in [Forms -> PayoutStatuses \union {"NONE"}]
  BY DEF IInv, PayoutsTypeOK
<1>1. ASSUME UNCHANGED <<status, returned, deskVars, crashes>> PROVE FewOrphans'
  BY <1>1 DEF FewOrphans, Orphans, Missing, deskVars
<1>2. CASE \E d \in Desks : DeskStep(d)
  BY <1>2, DeskOrphans
<1>3. ASSUME NEW f \in Forms, HoldEarnings(f) PROVE FewOrphans'
  <2>1. Orphans' \subseteq Orphans
    BY <1>0, <1>3 DEF HoldEarnings, Hold, Orphans, Missing, deskVars, rowVars
  <2> QED
    BY <1>0, <1>3, <2>1, NoMoreOrphans DEF HoldEarnings, boundVars
<1> QED
  BY <1>1, <1>2, <1>3
  DEF Next, PaymentStep, CreditAnalystEarning, ReverseAnalystEarning, FormStep,
      RequestWithdrawal, CheckWithdrawal, SetPayoutWindow, Midnight, vars, rowVars, boundVars

(* When no administrator is at work, as many refused amounts are missing as   *)
(* requests died, at most: every other refusal has put the earnings back       *)
(* (service.ts:31-32, 253-270).                                             *)
THEOREM OnlyCrashesKeep == Spec => []OnlyCrashesKeepEarnings
<1>1. Init => FewOrphans
  <2> SUFFICES ASSUME Init PROVE FewOrphans
    OBVIOUS
  <2>1. Orphans = {} /\ crashes = 0
    BY DEF Init, Orphans, Missing
  <2> QED
    BY <2>1, FS_EmptySet DEF FewOrphans
<1>2. FewOrphans => OnlyCrashesKeepEarnings
  <2> SUFFICES ASSUME FewOrphans, DesksIdle PROVE Cardinality(Missing) <= crashes
    BY DEF OnlyCrashesKeepEarnings
  <2>1. Missing = Orphans
    BY DEF Orphans, DesksIdle
  <2> QED
    BY <2>1 DEF FewOrphans
<1> QED
  BY <1>1, <1>2, InitIInv, NextIInv, NextOrphans, PTL DEF Spec
-----------------------------------------------------------------------------
(* What is on an account and away from it adds up to the income.  Each step   *)
(* moves one amount between the two, so the sum over what is away gains or   *)
(* loses one summand.                                                      *)
Balanced(a) ==
  IsFiniteSet(Away(a)) /\ earnings[a] + SumOver(held, Away(a)) = income[a]

LEMMA HeldAreInt == PayoutsTypeOK => \A a : \A f \in Away(a) : held[f] \in Int
  BY DEF PayoutsTypeOK, Away

(* An amount goes away with a withdrawal that was not, and what the others   *)
(* hold stays.                                                             *)
LEMMA GoesAway ==
  ASSUME PayoutsTypeOK, NEW a \in Analysts, NEW f \in Forms, IsFiniteSet(Away(a)),
         f \notin Away(a), Away(a)' = Away(a) \union {f}, NEW n \in Int,
         held' = [held EXCEPT ![f] = n]
  PROVE  IsFiniteSet(Away(a)') /\ SumOver(held', Away(a)') = SumOver(held, Away(a)) + n
<1>1. PICK S : S = Away(a)
  OBVIOUS
<1>2. PICK h : h = held'
  OBVIOUS
<1>3. \A g \in S \union {f} : h[g] \in Int /\ (g # f => h[g] = held[g])
  BY <1>1, <1>2 DEF PayoutsTypeOK, Away
<1>4. h[f] = n
  BY <1>2 DEF PayoutsTypeOK
<1>5. SumOver(h, S) = SumOver(held, S)
  BY <1>1, <1>3, SumSame
<1>6. SumOver(h, S \union {f}) = SumOver(h, S) + h[f]
  BY <1>1, <1>3, SumAdd
<1>7. IsFiniteSet(S \union {f})
  BY <1>1, FS_AddElement
<1> QED BY <1>1, <1>2, <1>4, <1>5, <1>6, <1>7

LEMMA ComesBack ==
  ASSUME PayoutsTypeOK, NEW a \in Analysts, NEW f \in Forms, IsFiniteSet(Away(a)),
         f \in Away(a), Away(a)' = Away(a) \ {f}, held' = held
  PROVE  IsFiniteSet(Away(a)') /\ SumOver(held, Away(a)) = SumOver(held', Away(a)') + held[f]
<1>1. PICK S : S = Away(a) \ {f}
  OBVIOUS
<1>2. Away(a) = S \union {f} /\ f \notin S
  BY <1>1
<1>3. IsFiniteSet(S) /\ \A g \in S \union {f} : held[g] \in Int
  BY <1>1, <1>2, FS_Subset, HeldAreInt
<1> QED BY <1>1, <1>2, <1>3, SumAdd

LEMMA NextBalanced ==
  ASSUME IInv, NEW a \in Analysts, Balanced(a), [Next]_vars
  PROVE  Balanced(a)'
<1>0. /\ earnings[a] \in Int /\ income[a] \in Int /\ SumOver(held, Away(a)) \in Int
      /\ PayoutsTypeOK
  BY SumIsInt, HeldAreInt DEF IInv, PayoutsTypeOK, Balanced
<1>1. ASSUME NEW b \in Analysts, NEW n \in Sizes,
             CreditAnalystEarning(b, n) \/ ReverseAnalystEarning(b, n)
      PROVE  Balanced(a)'
  <2>1. n \in Int
    BY PayoutsAssumption
  <2>2. Away(a)' = Away(a) /\ held' = held
    BY <1>1 DEF CreditAnalystEarning, ReverseAnalystEarning, Away
  <2>3. earnings'[a] - earnings[a] = income'[a] - income[a]
        /\ earnings'[a] \in Int /\ income'[a] \in Int
    BY <1>0, <1>1, <2>1 DEF CreditAnalystEarning, ReverseAnalystEarning, PayoutsTypeOK
  <2> QED BY <1>0, <2>2, <2>3 DEF Balanced
<1>2. ASSUME NEW f \in Forms, form[f] = "checked", Hold(f), income' = income
      PROVE  Balanced(a)'
  <2>1. status[f] = "NONE" /\ asked[f] \in Int
    BY <1>2, PayoutsAssumption DEF IInv, Claims, PayoutsTypeOK
  <2>2. f \notin returned
    BY <2>1 DEF IInv, Claims
  <2>3. CASE OwnerOf[f] = a
    <3>1. f \notin Away(a) /\ Away(a)' = Away(a) \union {f}
      BY <1>0, <1>2, <2>1, <2>2, <2>3 DEF Away, Hold, PayoutsTypeOK
    <3>2. IsFiniteSet(Away(a)')
          /\ SumOver(held', Away(a)') = SumOver(held, Away(a)) + asked[f]
      BY <1>0, <1>2, <2>1, <3>1, GoesAway DEF Balanced, Hold
    <3>3. earnings'[a] = earnings[a] - asked[f]
      BY <1>0, <1>2, <2>3 DEF Hold, PayoutsTypeOK
    <3> QED BY <1>0, <1>2, <2>1, <3>2, <3>3 DEF Balanced
  <2>4. CASE OwnerOf[f] # a
    <3>1. f \notin Away(a) /\ Away(a)' = Away(a) /\ earnings'[a] = earnings[a]
      BY <1>0, <1>2, <2>4, PayoutsAssumption DEF Away, Hold, PayoutsTypeOK
    <3>2. \A g \in Away(a) : held[g] \in Int /\ held[g] = held'[g]
      BY <1>0, <1>2, <3>1 DEF Hold, PayoutsTypeOK, Away
    <3>3. SumOver(held, Away(a)) = SumOver(held', Away(a))
      <4>1. PICK h : h = held'
        OBVIOUS
      <4> QED BY <3>2, <4>1, SumSame DEF Balanced
    <3> QED BY <1>2, <3>1, <3>3 DEF Balanced
  <2> QED BY <2>3, <2>4
<1>3. ASSUME NEW d \in Desks, ReturnEarnings(d), row[d] \notin returned
      PROVE  Balanced(a)'
  <2>1. PICK f \in Forms : f = row[d]
    BY <1>0 DEF PayoutsTypeOK
  <2>2. /\ status[f] = "REJECTED" /\ f \notin returned /\ held[f] \in Int
        /\ earnings' = [earnings EXCEPT ![OwnerOf[f]] = @ + held[f]]
        /\ returned' = returned \union {f} /\ status' = status /\ held' = held
        /\ income' = income
    BY <1>0, <1>3, <2>1 DEF ReturnEarnings, PayoutsTypeOK
  <2>3. CASE OwnerOf[f] = a
    <3>1. f \in Away(a) /\ Away(a)' = Away(a) \ {f}
      BY <2>2, <2>3 DEF Away
    <3>2. IsFiniteSet(Away(a)')
          /\ SumOver(held, Away(a)) = SumOver(held', Away(a)') + held[f]
      BY <1>0, <2>2, <3>1, ComesBack DEF Balanced
    <3>3. earnings'[a] = earnings[a] + held[f]
      BY <1>0, <2>2, <2>3 DEF PayoutsTypeOK
    <3>4. SumOver(held', Away(a)') \in Int
      <4>1. PICK S : S = Away(a)'
        OBVIOUS
      <4>2. \A g \in S : held[g] \in Int
        BY <1>0, <3>1, <4>1, HeldAreInt
      <4> QED BY <2>2, <3>2, <4>1, <4>2, SumIsInt
    <3> QED BY <1>0, <2>2, <3>2, <3>3, <3>4 DEF Balanced
  <2>4. CASE OwnerOf[f] # a
    <3>1. Away(a)' = Away(a) /\ earnings'[a] = earnings[a]
      BY <1>0, <2>2, <2>4, PayoutsAssumption DEF Away, PayoutsTypeOK
    <3> QED BY <2>2, <3>1 DEF Balanced
  <2> QED BY <2>3, <2>4
<1>4. ASSUME earnings' = earnings, income' = income, held' = held,
             returned' = returned,
             \A f \in Forms : (status'[f] = "NONE") = (status[f] = "NONE")
      PROVE  Balanced(a)'
  <2>1. Away(a)' = Away(a)
    BY <1>4 DEF Away
  <2> QED BY <1>4, <2>1 DEF Balanced
<1>5. ASSUME NEW d \in Desks, RejectPayout(d) \/ MarkPayoutPaid(d) PROVE Balanced(a)'
  BY <1>0, <1>4, <1>5 DEF RejectPayout, MarkPayoutPaid, PayoutsTypeOK
<1>6. ASSUME NEW d \in Desks, DeskStep(d) PROVE Balanced(a)'
  BY <1>3, <1>4, <1>5, <1>6 DEF DeskStep, ReadPayout, ReturnEarnings, Crash, rowVars
<1>7. ASSUME NEW f \in Forms, FormStep(f) PROVE Balanced(a)'
  BY <1>2, <1>4, <1>7 DEF FormStep, RequestWithdrawal, CheckWithdrawal, HoldEarnings, rowVars
<1> QED
  BY <1>1, <1>4, <1>6, <1>7 DEF Next, PaymentStep, SetPayoutWindow, Midnight, vars, rowVars

BooksBalanced == \A a \in Analysts : Balanced(a)

LEMMA AlwaysBalanced == Spec => [](IInv /\ BooksBalanced)
<1>1. Init => BooksBalanced
  <2> SUFFICES ASSUME Init, NEW a \in Analysts PROVE Balanced(a)
    BY DEF BooksBalanced
  <2>1. Away(a) = {} /\ earnings[a] = 0 /\ income[a] = 0
    BY DEF Init, Away
  <2> QED BY <2>1, SumEmpty, FS_EmptySet DEF Balanced
<1>2. IInv /\ BooksBalanced /\ [Next]_vars => BooksBalanced'
  BY NextBalanced DEF BooksBalanced
<1> QED BY <1>1, <1>2, InitIInv, NextIInv, PTL DEF Spec

(* Every tetri of an analyst's income is on the account, held by an open      *)
(* request, on its way back or paid out, whatever overlaps and whatever dies   *)
(* (service.ts:21-32).                                                     *)
THEOREM EveryTetriAccounted == Spec => []EarningsAccountedFor
<1>1. BooksBalanced => EarningsAccountedFor
  BY DEF BooksBalanced, Balanced, EarningsAccountedFor, SumOver
<1> QED BY <1>1, AlwaysBalanced, PTL
-----------------------------------------------------------------------------
(* What the pages say.  All of it follows from the state, but that what an   *)
(* administrator is deciding was once offered to him.                      *)
DeskHasRow == \A d \in Desks : desk[d] # "idle" => status[row[d]] # "NONE"

LEMMA NextDeskHasRow == IInv /\ DeskHasRow /\ [Next]_vars => DeskHasRow'
<1> SUFFICES ASSUME IInv, DeskHasRow, [Next]_vars PROVE DeskHasRow'
  OBVIOUS
<1>0. /\ status \in [Forms -> PayoutStatuses \union {"NONE"}] /\ row \in [Desks -> Forms]
      /\ desk \in [Desks -> {"idle", "reject", "pay", "return"}]
  BY DEF IInv, PayoutsTypeOK
<1>1. ASSUME UNCHANGED deskVars, \A f \in Forms : status[f] # "NONE" => status'[f] # "NONE"
      PROVE  DeskHasRow'
  BY <1>0, <1>1 DEF DeskHasRow, deskVars
<1>2. ASSUME NEW d \in Desks, DeskStep(d) PROVE DeskHasRow'
  <2>1. \A f \in Forms : status[f] # "NONE" => status'[f] # "NONE"
    BY <1>0, <1>2 DEF DeskStep, ReadPayout, RejectPayout, ReturnEarnings, MarkPayoutPaid,
       Crash, rowVars
  <2>2. ASSUME NEW f \in Forms, ReadPayout(d, f) PROVE DeskHasRow'
    BY <1>0, <2>2 DEF ReadPayout, Sit, DeskHasRow, rowVars
  <2>3. ASSUME row' = row, \A e \in Desks : desk'[e] # "idle" => desk[e] # "idle"
        PROVE  DeskHasRow'
    BY <1>0, <2>1, <2>3 DEF DeskHasRow
  <2>4. CASE RejectPayout(d)
    BY <1>0, <2>3, <2>4 DEF RejectPayout, Sit
  <2>5. CASE ReturnEarnings(d) \/ MarkPayoutPaid(d) \/ Crash(d)
    BY <1>0, <2>3, <2>5 DEF ReturnEarnings, MarkPayoutPaid, Crash, Sit
  <2> QED BY <1>2, <2>2, <2>4, <2>5 DEF DeskStep
<1>3. ASSUME NEW f \in Forms, FormStep(f) PROVE DeskHasRow'
  BY <1>0, <1>1, <1>3 DEF FormStep, RequestWithdrawal, CheckWithdrawal, HoldEarnings, Hold, rowVars
<1> QED
  BY <1>1, <1>2, <1>3 DEF Next, PaymentStep, CreditAnalystEarning, ReverseAnalystEarning,
     SetPayoutWindow, Midnight, vars, rowVars

LEMMA NoticesRefuse ==
  ASSUME PayoutsTypeOK, NEW a \in Analysts PROVE NoticeIsRefusal(a)
<1> SUFFICES ASSUME NEW n \in 0..4, NEW iban, IbanValid(iban)
             PROVE  LET answer == Refusal(a, n, iban) shown == WithdrawCard(a) IN
                    CASE shown = "form" -> (answer = "none") = (n \in WithdrawForm(a))
                      [] shown = "BELOW_MINIMUM" ->
                           answer \in {"BELOW_MINIMUM", "INSUFFICIENT_EARNINGS"}
                      [] OTHER -> answer = shown
  BY DEF NoticeIsRefusal, ValidAccounts
<1>0. /\ earnings[a] \in Int /\ Minimum \in Int /\ n \in Int
      /\ window[a] \in Overrides
  BY PayoutsAssumption DEF PayoutsTypeOK
<1>1. (Listed(a, {"REQUESTED"}) # {}) <=> HasPendingRequest(a)
  BY DEF Listed, HasPendingRequest
<1>2. CASE HasPendingRequest(a)
  BY <1>1, <1>2 DEF WithdrawCard, Refusal
<1>3. CASE ~HasPendingRequest(a) /\ ~IsWithdrawalWindowOpen(window[a])
  BY <1>1, <1>3 DEF WithdrawCard, WithdrawDialog, Refusal
<1>4. CASE ~HasPendingRequest(a) /\ IsWithdrawalWindowOpen(window[a])
  <2>1. window[a] # "CLOSED"
    BY <1>4 DEF IsWithdrawalWindowOpen
  <2>2. CASE earnings[a] < Minimum
    BY <1>0, <1>1, <1>4, <2>1, <2>2 DEF WithdrawCard, WithdrawDialog, Refusal
  <2>3. CASE ~(earnings[a] < Minimum)
    BY <1>0, <1>1, <1>4, <2>1, <2>3 DEF WithdrawCard, WithdrawDialog, Refusal, WithdrawForm
  <2> QED BY <2>2, <2>3
<1> QED BY <1>2, <1>3, <1>4

LEMMA WindowsAgree ==
  ASSUME PayoutsTypeOK, NEW a \in Analysts PROVE WindowAgrees(a)
<1>0. window[a] \in Overrides
  BY DEF PayoutsTypeOK
<1>1. CanWithdrawNow(a) = (WindowLine(a) \in {"open for you", "today"})
  BY DEF CanWithdrawNow, WindowLine, IsWithdrawalWindowOpen
<1>2. CanWithdrawNow(a) = (WithdrawDialog(a) \in {"BELOW_MINIMUM", "form"})
  BY DEF CanWithdrawNow, WithdrawDialog, IsWithdrawalWindowOpen
<1>3. ASSUME NEW note \in 0..4
      PROVE  /\ \A choice \in PayoutWindowForm(a, note) : WindowAccepted(choice)
             /\ window[a] # "OPEN" =>
                  \E choice \in PayoutWindowForm(a, note) : choice[1] = "OPEN"
  <2>1. \A choice \in PayoutWindowForm(a, note) : WindowAccepted(choice)
    BY DEF PayoutWindowForm, WindowAccepted
  <2>2. ASSUME window[a] # "OPEN" PROVE <<"OPEN", 3>> \in PayoutWindowForm(a, note)
    BY <2>2 DEF PayoutWindowForm, Overrides
  <2> QED BY <2>1, <2>2
<1> QED BY <1>1, <1>2, <1>3 DEF WindowAgrees

LEMMA FiguresAgree ==
  ASSUME IInv, NEW a \in Analysts, Balanced(a) PROVE FiguresAddUp(a)
<1> SUFFICES ASSUME Missing = {}
             PROVE  earnings[a] + SumOver(held, Listed(a, {"REQUESTED", "PAID"})) = income[a]
  BY DEF FiguresAddUp, EarnedFrom, SumOver
<1>1. Listed(a, {"REQUESTED", "PAID"}) = Away(a)
  BY DEF Listed, Away, Missing, IInv, PayoutsTypeOK, PayoutStatuses, Claims
<1> QED BY <1>1 DEF Balanced

LEMMA QueueAgrees == ASSUME IInv, DeskHasRow PROVE QueueDecides
<1>1. ASSUME NEW a \in Analysts
      PROVE  (WithdrawCard(a) = "PENDING_REQUEST_EXISTS")
               = (\E f \in PayoutsQueue : OwnerOf[f] = a)
  <2>1. WithdrawDialog(a) # "PENDING_REQUEST_EXISTS"
    BY DEF WithdrawDialog
  <2>2. (Listed(a, {"REQUESTED"}) # {}) <=> \E f \in PayoutsQueue : OwnerOf[f] = a
    BY DEF Listed, PayoutsQueue, OpenPayouts
  <2> QED BY <2>1, <2>2 DEF WithdrawCard
<1>2. \A d \in Desks : desk[d] \in {"pay", "reject"} => row[d] \in OpenPayouts \union History
  BY DEF DeskHasRow, OpenPayouts, History, IInv, PayoutsTypeOK
<1>3. \A f \in OpenPayouts : DecidePayoutForm(f, FALSE) = {"pay", "reject"}
  BY DEF OpenPayouts, DecidePayoutForm, RevealPayoutIban
<1>4. \A f \in History : ~RevealPayoutIban(f, FALSE)
  BY DEF History, RevealPayoutIban
<1> QED BY <1>1, <1>2, <1>3, <1>4 DEF QueueDecides

(* Whatever payments, decisions and windows change under a page, the notice  *)
(* an analyst reads is the refusal he would get, his figures add up, and who *)
(* waits for a decision waits for one an administrator is asked for          *)
(* (rules.ts:157-193).                                                     *)
THEOREM PagesTellTheSame == Spec => []PayoutPagesAgree
<1>1. Init => DeskHasRow
  BY DEF Init, DeskHasRow
<1>2. IInv /\ BooksBalanced /\ DeskHasRow => PayoutPagesAgree
  BY NoticesRefuse, WindowsAgree, FiguresAgree, QueueAgrees
  DEF PayoutPagesAgree, IInv, BooksBalanced
<1> QED BY <1>1, <1>2, NextDeskHasRow, AlwaysBalanced, PTL DEF Spec
=============================================================================
