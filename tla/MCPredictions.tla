---------------------------- MODULE MCPredictions ----------------------------
(***************************************************************************)
(* An instance of Predictions for TLC: one bet, of any kind.  The same run  *)
(* checks the arithmetic of the record over all short records.             *)
(***************************************************************************)
EXTENDS Pages, Statistics

MCKickoff == [b \in Bets |-> 1]
MCLastKickoff == [b \in Bets |-> 2]
MCOdds == [b \in Bets |-> 1855]

(* The facts below are about all short records; a run evaluates them in its *)
(* initial state.                                                          *)

(* A settled or open prediction of one unit, its profit as settling it      *)
(* computes it.                                                            *)
MCRecord(status, odds, month) ==
  [status |-> status, oddsMilli |-> odds, stakeUnitsCenti |-> Stake, month |-> month,
   profitUnitsCenti |-> IF status = "PENDING" THEN 0
                        ELSE ComputeProfitUnitsCenti(status, odds)]

MCRecords == {MCRecord("WON", 1500, 1), MCRecord("WON", 4999, 2), MCRecord("LOST", 2000, 2),
              MCRecord("VOID", 1855, 1), MCRecord("PENDING", 1855, 2)}

(* Streaks are the longest runs of decided predictions, as a reference      *)
(* definition finds them, and a VOID in between changes nothing; and the     *)
(* profile's charts and its summary tell one story: the running total, the   *)
(* months and the ranges of odds add up to the same profit, wins, losses     *)
(* and stakes (performance.ts).                                            *)
RecordCorrect ==
  Init => /\ \A records \in BoundedSeq(MCRecords, 5) : StreaksAgree(records)
          /\ \A records \in BoundedSeq(MCRecords, 4) : PartsAddUp(records)
=============================================================================
