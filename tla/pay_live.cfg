SPECIFICATION FairSpec
CONSTANTS
  None = None
  Orders = {"o1", "x1"}
  Handlers = {h1}
  Reported = {"SUCCEEDED", "FAILED", "REFUNDED", "EXPIRED"}
  Declines <- OnceEach
  Repeats <- Never
  MaxCrashes = 0
  MaxTime = 0
  Noise <- CheckoutNoise
  Foreign <- MCForeign
  Subs <- MCSubs
  Tickets <- MCTickets
  Plans = {"plan"}
  Analysts = {"analyst"}
  SubOf <- MCSubOf
  TicketOf <- MCTicketOf
  ParentOf <- MCParentOf
  PlanOf <- MCPlanOf
  AnalystOf <- MCAnalystOf
  Share <- MCShare
  Period = 2
CHECK_DEADLOCK FALSE
INVARIANTS
  NothingUnpaid
PROPERTIES
  ApprovedIsSettled
