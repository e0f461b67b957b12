------------------------------- MODULE Calendar -------------------------------
(***************************************************************************)
(* The product's arithmetic of dates, as pure functions: the Tbilisi clock, *)
(* the month a withdrawal is paid for and its last day, the weeks an author *)
(* owes, the next charge of a subscription, and the windows of the rate     *)
(* limiter.  Instants are whole hours, days whole days, from the first hour *)
(* of the UTC day 1970-01-01.                                              *)
(***************************************************************************)
EXTENDS Integers, Sequences, FiniteSets, SequencesExt

DAY == 24
WEEK == 7 * DAY
TBILISI_UTC_OFFSET == 4
PLATFORM_MONTHLY_MINIMUM == 8

(* Dates as the runtime computes them: a month or a day out of range runs   *)
(* over into the next.                                                     *)
DaysBefore == <<0, 31, 59, 90, 120, 151, 181, 212, 243, 273, 304, 334>>
Leap(y) == y % 4 = 0 /\ (y % 100 # 0 \/ y % 400 = 0)
LeapDays(y) == (y - 1) \div 4 - (y - 1) \div 100 + (y - 1) \div 400

DateUTC(year, month, day) ==
  LET y == year + (month - 1) \div 12
      m == ((month - 1) % 12) + 1
  IN  365 * (y - 1970) + LeapDays(y) - LeapDays(1970)
        + DaysBefore[m] + (IF Leap(y) /\ m > 2 THEN 1 ELSE 0) + day - 1

(* The fields of a date; its year is near enough the number of 365 days.    *)
Fields(date) ==
  LET near == 1970 + date \div 365
      year == CHOOSE y \in {near, near - 1} :
                DateUTC(y, 1, 1) <= date /\ date < DateUTC(y + 1, 1, 1)
      month == CHOOSE m \in 1..12 :
                 DateUTC(year, m, 1) <= date /\ date < DateUTC(year, m + 1, 1)
  IN  [year |-> year, month |-> month, day |-> date - DateUTC(year, month, 1) + 1]

Weekday(date) == (date + 4) % 7   \* 0 is Sunday

Larger(a, b) == IF a > b THEN a ELSE b
-----------------------------------------------------------------------------
(* The Tbilisi clock.                                                      *)

TbilisiParts(instant) == Fields((instant + TBILISI_UTC_OFFSET) \div DAY)

TbilisiMidnight(year, month, day) == DateUTC(year, month, day) * DAY - TBILISI_UTC_OFFSET

(* A form's date and hour, as the instant it names; a date that does not    *)
(* exist names none, and is not rolled into the next month.                 *)
ParseTbilisiLocal(year, month, day, hour) ==
  LET instant == DateUTC(year, month, day) * DAY + hour - TBILISI_UTC_OFFSET IN
  IF TbilisiParts(instant) = [year |-> year, month |-> month, day |-> day]
    THEN {instant} ELSE {}
-----------------------------------------------------------------------------
(* The month of a withdrawal and its window.                               *)

DaysInMonth(year, month) == Fields(DateUTC(year, month + 1, 0)).day

OpenOnLastUtcDay(now) ==   \* faulty: the last day of the month in UTC
  LET d == Fields(now \div DAY) IN d.day = DaysInMonth(d.year, d.month)

(* The calendar's half of it; an override decides outright.                 *)
IsWithdrawalWindowOpen(now) ==
  LET d == TbilisiParts(now) IN d.day = DaysInMonth(d.year, d.month)

NextMonth(d) == IF d.month = 12 THEN [year |-> d.year + 1, month |-> 1]
                                ELSE [year |-> d.year, month |-> d.month + 1]

NextWithdrawalWindow(now) ==
  LET d == TbilisiParts(now)
      last == DaysInMonth(d.year, d.month)
      next == NextMonth(d)
  IN  IF d.day < last THEN TbilisiMidnight(d.year, d.month, last)
      ELSE TbilisiMidnight(next.year, next.month, DaysInMonth(next.year, next.month))

PayoutPeriod(now) ==
  LET d == TbilisiParts(now)  next == NextMonth(d) IN
  [start |-> TbilisiMidnight(d.year, d.month, 1),
   end |-> TbilisiMidnight(next.year, next.month, 1)]

(* What the author published in the month, by full weeks from its first     *)
(* Monday on.  A declared minimum counts from the platform's floor.         *)
FirstMonday(start) ==
  start + ((8 - Weekday((start + TBILISI_UTC_OFFSET) \div DAY)) % 7) * DAY

MonthlyActivity(period, published, declared) ==
  LET first == FirstMonday(period.start)
      weeks == Larger(0, (period.end - first) \div WEEK)
      inside == {p \in published : period.start <= p /\ p < period.end}
      perWeek == [w \in 0..weeks - 1 |->
                    Cardinality({p \in inside : p >= first /\ (p - first) \div WEEK = w})]
      empty == {w \in 0..weeks - 1 : perWeek[w] = 0}
      minimum == Larger(PLATFORM_MONTHLY_MINIMUM, declared)
  IN  [total |-> Cardinality(inside), weeks |-> weeks, emptyWeeks |-> Cardinality(empty),
       passed |-> Cardinality(inside) >= minimum /\ empty = {}]
-----------------------------------------------------------------------------
(* The next charge.                                                        *)

(* One period on: the same day of a later month, or as many days into the   *)
(* month after it as that one is short.                                    *)
AddBillingPeriod(from, period) ==
  LET d == Fields(from \div DAY) IN
  (from % DAY) + DAY *
    CASE period = "DAILY" -> DateUTC(d.year, d.month, d.day + 1)
      [] period = "QUARTERLY" -> DateUTC(d.year, d.month + 3, d.day)
      [] OTHER -> DateUTC(d.year, d.month + 1, d.day)

(* The UTC date of it, on which the gateway's calendar starts and which the *)
(* notice names.                                                           *)
NextChargeDate(from, period) == AddBillingPeriod(from, period) \div DAY
-----------------------------------------------------------------------------
(* The rate limiter: which of the requests, a sequence of instants in their *)
(* order, are let through.                                                 *)

FixedWindow(now, length) == (now \div length) * length

(* One counter per window, shared by every instance.                       *)
SharedVerdicts(times, limit, length) ==
  [i \in DOMAIN times |->
     Cardinality({j \in 1..i : FixedWindow(times[j], length) = FixedWindow(times[i], length)})
       <= limit]

(* The counter of one instance, while the database cannot be reached: its   *)
(* window begins with the first request after the last one was over.        *)
LocalVerdicts(times, limit, length) ==
  LET Count(state, now) ==
        LET fresh == state.expires <= now
            count == IF fresh THEN 1 ELSE state.count + 1
        IN  [expires |-> IF fresh THEN now + length ELSE state.expires,
             count |-> count,
             verdicts |-> Append(state.verdicts, count <= limit)]
  IN  FoldLeft(Count, [expires |-> 0, count |-> 0, verdicts |-> <<>>], times).verdicts
-----------------------------------------------------------------------------
(* What the dates must agree on.                                           *)

(* The window is the last Tbilisi day of the month, whole and only: open    *)
(* exactly when tomorrow is another month.  The next one is announced       *)
(* right: it opens then, after now, and no other opens before it.           *)
WindowIsLastDay(now) ==
  LET next == NextWithdrawalWindow(now) IN
  /\ IsWithdrawalWindowOpen(now)
       <=> TbilisiParts(now).month # TbilisiParts(now + DAY).month
  /\ next > now /\ IsWithdrawalWindowOpen(next) /\ ~IsWithdrawalWindowOpen(next - 1)
  /\ next - now <= 2 * 31 * DAY
  /\ \A d \in 1..31 :
       now + d * DAY < next => ~IsWithdrawalWindowOpen(now + d * DAY)

(* The months of withdrawals tile time: every instant is in its own, and    *)
(* the next begins where it ends.                                          *)
PeriodsTile(now) ==
  LET period == PayoutPeriod(now) IN
  /\ period.start <= now /\ now < period.end
  /\ PayoutPeriod(period.end).start = period.end
  /\ PayoutPeriod(period.end - 1) = period

(* The month judged by dates: a full week is seven days of it from a Monday *)
(* on, and it is empty when nothing was published on any of them.           *)
WeeksOfMonth(start) ==
  LET month(date) == [year |-> Fields(date).year, month |-> Fields(date).month]
      first == (start + TBILISI_UTC_OFFSET) \div DAY
  IN  {date \in first..first + 30 :
         Weekday(date) = 1 /\ month(date + 6) = month(first)}

ActivityByDates(start, published, declared) ==
  LET period == PayoutPeriod(start)
      activity == MonthlyActivity(period, published, declared)
      date(p) == (p + TBILISI_UTC_OFFSET) \div DAY
      mine == {p \in published : /\ Fields(date(p)).month = Fields(date(start)).month
                                 /\ Fields(date(p)).year = Fields(date(start)).year}
      empty == {monday \in WeeksOfMonth(start) :
                  \A p \in published : date(p) \notin monday..monday + 6}
  IN  /\ activity.total = Cardinality(mine)
      /\ activity.weeks = Cardinality(WeeksOfMonth(start))
      /\ activity.emptyWeeks = Cardinality(empty)
      /\ activity.passed
           <=> Cardinality(mine) >= Larger(declared, PLATFORM_MONTHLY_MINIMUM) /\ empty = {}

(* A notice sent at a charge is at least four weeks ahead of the next one,  *)
(* whatever the month (charge-notice.ts), and no month is paid for twice.   *)
ChargesFourWeeksApart(now) ==
  /\ NextChargeDate(now, "DAILY") - now \div DAY = 1
  /\ NextChargeDate(now, "MONTHLY") - now \div DAY \in 28..31
  /\ NextChargeDate(now, "QUARTERLY") - now \div DAY \in 89..92

(* A form's date is kept as written, and exists.                           *)
FormDatesKept(year, month, day, hour) ==
  LET instants == ParseTbilisiLocal(year, month, day, hour) IN
  /\ instants # {} <=> day <= DaysInMonth(year, month)
  /\ \A instant \in instants :
       /\ TbilisiParts(instant) = [year |-> year, month |-> month, day |-> day]
       /\ (instant + TBILISI_UTC_OFFSET) % DAY = hour

(* Neither counter lets more than its limit through in a window, and so no  *)
(* more than twice as many in any stretch of that length.                   *)
LimitKept(times, limit, length) ==
  \A verdicts \in {SharedVerdicts(times, limit, length), LocalVerdicts(times, limit, length)} :
    \A i \in DOMAIN times :
      LET after == {j \in DOMAIN times : times[i] <= times[j] /\ times[j] < times[i] + length}
      IN  /\ Cardinality({j \in after : verdicts[j]}) <= 2 * limit
          /\ i <= limit => verdicts[i]
=============================================================================
