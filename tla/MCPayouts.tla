------------------------------ MODULE MCPayouts ------------------------------
(***************************************************************************)
(* Instances of Payouts for TLC: one analyst with several forms.           *)
(***************************************************************************)
EXTENDS PayoutPages, FiniteSetsExt, TLC

C == INSTANCE Calendar

MCOwnerOf == [f \in Forms |-> "analyst"]

DeskSymmetry == Permutations(Desks)
-----------------------------------------------------------------------------
(* The calendar behind the window, over a winter with a leap day in it: the *)
(* hours on both sides of the UTC and of the Tbilisi midnight, around every *)
(* end of a month.                                                         *)
Hours == {C!DateUTC(2023, m, d) * C!DAY + h :
            m \in 12..15, d \in {1, 15} \union 28..31, h \in {0, 19, 20}}

(* Publications on both sides of every edge an author's month has.         *)
Edges(start, end) ==
  LET monday == C!FirstMonday(start) IN
  {start - 1, start, monday - 1, monday, monday + C!WEEK, monday + 4 * C!WEEK - 1,
   monday + 4 * C!WEEK, end - 1, end}

Always(start) ==
  LET monday == C!FirstMonday(start) IN {monday + 2 * C!WEEK + h : h \in 0..5}

Requests == {times \in [1..5 -> 0..4] : \A i \in 1..4 : times[i] <= times[i + 1]}

CalendarFacts ==
  /\ \A now \in Hours : /\ C!WindowIsLastDay(now) /\ C!PeriodsTile(now)
                        /\ C!ChargesFourWeeksApart(now)
  /\ \A y \in {2023, 2024}, m \in 1..12, d \in {1} \union 28..31, h \in {0, 3, 23} :
       C!FormDatesKept(y, m, d, h)
  /\ \A m \in 12..15 : LET start == C!TbilisiMidnight(2023, m, 1) IN
       \A published \in SUBSET Edges(start, C!PayoutPeriod(start).end) :
         C!ActivityByDates(start, published \union Always(start), 9)
  /\ \A times \in Requests : C!LimitKept(times, 2, 3)

(* The dates money and deliveries are judged by agree with the calendar on  *)
(* an analyst's wall: the window is the whole last Tbilisi day of a month   *)
(* and is announced right, the months tile, a full week is a full week, a   *)
(* notice is four weeks ahead of its charge, a form's date is kept.  The    *)
(* rate limiter lets no more than twice its limit through in any stretch,   *)
(* and a mistyped account number does not pass (rules.ts:97-99).           *)
ArithmeticAgrees == Init => CalendarFacts /\ IbansAgree
=============================================================================
