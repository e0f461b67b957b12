SPECIFICATION AppSpec
CONSTANTS
  None = None
  Orders = {"o1", "o2", "r1"}
  Handlers = {h1}
  Reported = {"SUCCEEDED"}
  Declines <- Never
  Repeats <- Never
  MaxCrashes = 0
  MaxTime = 3
  Recurring = TRUE
  ChargeOf <- MCChargeOf
  Grace = 1
  AccessGrace = 1
  StaleAfter = 1
  Leavers = {}
  Refusals = {}
  Noise <- NoNoise
  Foreign <- MCForeign
  Subs <- MCSubs
  Tickets <- MCTickets
  Plans = {"plan"}
  Analysts = {"analyst"}
  SubOf <- MCSubOf
  TicketOf <- MCTicketOf
  ParentOf <- MCParentOf
  PlanOf <- MCPlanOf
  AnalystOf <- MCAnalystOf
  Share <- MCShare
  Period = 2
CHECK_DEADLOCK FALSE
PROPERTIES
  ConflictOnlyWhileRunning
  ShutRowsStayShut
