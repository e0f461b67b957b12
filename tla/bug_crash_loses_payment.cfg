SPECIFICATION FairSystemSpec
CONSTANTS
  None = None
  Orders = {"o1"}
  Handlers = {h1}
  Reported = {"SUCCEEDED"}
  Declines <- Never
  Repeats <- Never
  MaxCrashes = 1
  MaxTime = 2
  Recurring = TRUE
  ChargeOf <- MCChargeOf
  Grace = 1
  AccessGrace = 1
  StaleAfter = 1
  Leavers = {}
  Refusals = {}
  Noise <- NoNoise
  Foreign <- MCForeign
  Subs <- MCSubs
  Tickets <- MCTickets
  Plans = {"plan"}
  Analysts = {"analyst"}
  SubOf <- MCSubOf
  TicketOf <- MCTicketOf
  ParentOf <- MCParentOf
  PlanOf <- MCPlanOf
  AnalystOf <- MCAnalystOf
  Share <- MCShare
  Period = 2
CHECK_DEADLOCK FALSE
PROPERTIES
  CapturedIsSettled
