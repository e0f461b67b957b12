SPECIFICATION Spec
CONSTANTS
  None = None
  Orders = {"o1", "o2", "r1"}
  Handlers = {h1, h2}
  Reported = {"SUCCEEDED", "FAILED"}
  Declines <- NotAtO2
  Repeats <- NotAtO2
  MaxCrashes = 1
  MaxTime = 0
  Noise <- NoNoise
  Foreign <- MCForeign
  Subs <- MCSubs
  Tickets <- MCTickets
  Plans = {"plan"}
  Analysts = {"analyst"}
  SubOf <- MCSubOf
  TicketOf <- MCTicketOf
  ParentOf <- MCParentOf
  PlanOf <- MCPlanOf
  AnalystOf <- MCAnalystOf
  Share <- MCShare
  Period = 2
SYMMETRY HandlerSymmetry
CHECK_DEADLOCK FALSE
INVARIANTS
  TypeOK
  OneActivePerPlan
  EarningsMatchLedger
  UnwantedReportedOnce
PROPERTIES
  PaymentsFollowLifecycle
