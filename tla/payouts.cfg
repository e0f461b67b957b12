SPECIFICATION Spec
CONSTANTS
  Analysts = {"analyst"}
  Forms = {f1, f2}
  Desks = {d1, d2}
  OwnerOf <- MCOwnerOf
  Sizes = {1, 2}
  Minimum = 1
  Windows = {"SCHEDULE", "OPEN", "CLOSED"}
  MaxPayments = 3
  MaxCrashes = 1
SYMMETRY DeskSymmetry
CHECK_DEADLOCK FALSE
INVARIANTS
  PayoutsTypeOK
  PayoutPagesAgree
  EarningsAccountedFor
  OnlyCrashesKeepEarnings
  ArithmeticAgrees
PROPERTIES
  WithdrawalsKeepAccount
