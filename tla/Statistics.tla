----------------------------- MODULE Statistics -----------------------------
(***************************************************************************)
(* The record of an analyst: pure functions over the predictions that count *)
(* in it, here a sequence in the order of their publication.  What a loop   *)
(* filters out is the set of places it passes over.                        *)
(***************************************************************************)
EXTENDS Integers, Sequences, SequencesExt

(* A record: status, oddsMilli, stakeUnitsCenti, profitUnitsCenti (0 while  *)
(* PENDING, VOID and PUSH) and the month of publication.                   *)
Decided(record) == record.status \in {"WON", "LOST"}
IsSettled(record) == record.status # "PENDING"

DecidedOf(records, places) == {i \in places : Decided(records[i])}
SettledOf(records) == {i \in DOMAIN records : IsSettled(records[i])}

CountOf(records, places, status) == Cardinality({i \in places : records[i].status = status})

Total(rows, places, field) == MapThenSumSet(LAMBDA i : rows[i][field], places)

RoundedTo(n, d) == (2 * n + d) \div (2 * d)

(* Runs over decided predictions: a VOID or a PUSH neither extends nor      *)
(* breaks one.                                                             *)
NoRun == [kind |-> "NONE", count |-> 0, won |-> 0, lost |-> 0]

LongerOf(a, b) == IF a > b THEN a ELSE b

ExtendedThroughVoids(run, record) ==   \* faulty: a returned stake ends the run
  LET count == IF run.kind = record.status THEN run.count + 1 ELSE 1 IN
  [kind |-> record.status, count |-> count,
   won |-> IF record.status = "WON" THEN LongerOf(run.won, count) ELSE run.won,
   lost |-> IF record.status = "LOST" THEN LongerOf(run.lost, count) ELSE run.lost]

ExtendedBy(run, record) ==
  IF ~Decided(record) THEN run
  ELSE LET count == IF run.kind = record.status THEN run.count + 1 ELSE 1 IN
       [kind |-> record.status, count |-> count,
        won |-> IF record.status = "WON" THEN LongerOf(run.won, count) ELSE run.won,
        lost |-> IF record.status = "LOST" THEN LongerOf(run.lost, count) ELSE run.lost]

ComputeStreaks(records) ==
  LET run[n \in 0..Len(records)] ==
        IF n = 0 THEN NoRun ELSE ExtendedBy(run[n - 1], records[n])
  IN  run[Len(records)]

SummarizePerformance(records) ==
  LET all == DOMAIN records
      staked == DecidedOf(records, all)
      won == CountOf(records, all, "WON")
      lost == CountOf(records, all, "LOST")
      decided == won + lost IN
  [total |-> Len(records), won |-> won, lost |-> lost,
   pending |-> CountOf(records, all, "PENDING"),
   voided |-> CountOf(records, all, "VOID"), pushed |-> CountOf(records, all, "PUSH"),
   decided |-> decided,
   hitRateBps |-> IF decided = 0 THEN 0 ELSE RoundedTo(won * 10000, decided),
   stakedUnitsCenti |-> Total(records, staked, "stakeUnitsCenti"),
   profitUnitsCenti |-> Total(records, staked, "profitUnitsCenti"),
   avgOddsMilli |-> IF staked = {} THEN 0
                    ELSE RoundedTo(Total(records, staked, "oddsMilli"), Cardinality(staked)),
   streaks |-> ComputeStreaks(records)]

(* Running profit after each settled prediction.                           *)
CumulativeUnits(records) ==
  LET running[n \in 0..Len(records)] ==
        IF n = 0 THEN 0
        ELSE running[n - 1]
             + (IF IsSettled(records[n]) THEN records[n].profitUnitsCenti ELSE 0)
  IN  [i \in SettledOf(records) |-> running[i]]

(* Voids and pushes are settled, and add a profit of 0.                     *)
MonthlyPerformance(records) ==
  [m \in {records[i].month : i \in SettledOf(records)} |->
     LET places == {i \in SettledOf(records) : records[i].month = m} IN
     [won |-> CountOf(records, places, "WON"), lost |-> CountOf(records, places, "LOST"),
      profitUnitsCenti |-> Total(records, places, "profitUnitsCenti")]]

(* Lower bounds of the odds ranges; each reaches to the next.               *)
ODDS_BUCKETS == <<0, 1500, 2000, 3000, 5000>>

InOddsBucket(odds, k) ==
  ODDS_BUCKETS[k] <= odds /\ (k < Len(ODDS_BUCKETS) => odds < ODDS_BUCKETS[k + 1])

OddsBucketPerformance(records) ==
  [k \in DOMAIN ODDS_BUCKETS |->
     LET places == {i \in SettledOf(records) : InOddsBucket(records[i].oddsMilli, k)}
         staked == DecidedOf(records, places) IN
     [won |-> CountOf(records, places, "WON"), lost |-> CountOf(records, places, "LOST"),
      decided |-> Cardinality(staked),
      profitUnitsCenti |-> Total(records, places, "profitUnitsCenti"),
      stakedUnitsCenti |-> Total(records, staked, "stakeUnitsCenti")]]

-----------------------------------------------------------------------------
(* What the figures must agree on, for the given sequences of records.      *)

(* The most predictions of one outcome in a stretch without the other one.  *)
Stretches(records, status) ==
  {s \in (DOMAIN records) \X (DOMAIN records) :
     \A k \in s[1]..s[2] : Decided(records[k]) => records[k].status = status}

LongestRun(records, status) ==
  Max({CountOf(records, s[1]..s[2], status) : s \in Stretches(records, status)} \union {0})

StreaksAgree(records) ==
  LET streaks == ComputeStreaks(records) IN
  /\ streaks.won = LongestRun(records, "WON")
  /\ streaks.lost = LongestRun(records, "LOST")

(* Each point of the running total is the profit decided up to there, the   *)
(* last that of the summary; the months and the ranges of odds split the   *)
(* same profit, wins, losses, decisions and stakes as the summary.         *)
PartsAddUp(records) ==
  LET summary == SummarizePerformance(records)
      points == CumulativeUnits(records)
      months == MonthlyPerformance(records)
      ranges == OddsBucketPerformance(records)
  IN  /\ \A i \in DOMAIN points :
           points[i] = Total(records, DecidedOf(records, 1..i), "profitUnitsCenti")
      /\ \A part \in {"won", "lost", "profitUnitsCenti"} :
           Total(months, DOMAIN months, part) = summary[part]
      /\ \A part \in {"won", "lost", "decided", "profitUnitsCenti", "stakedUnitsCenti"} :
           Total(ranges, DOMAIN ranges, part) = summary[part]
=============================================================================
