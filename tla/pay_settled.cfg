SPECIFICATION RecurringSpec
CONSTANTS
  None = None
  Orders = {"o1", "o2", "k1", "k2"}
  Handlers = {h1}
  Reported = {"SUCCEEDED", "FAILED", "REFUNDED"}
  Declines <- OnlyAtO1
  Repeats <- Never
  MaxCrashes = 0
  MaxTime = 1
  Noise <- NoNoise
  Foreign <- MCForeign
  Subs <- MCSubs
  Tickets <- MCTickets
  Plans = {"plan"}
  Analysts = {"analyst"}
  SubOf <- MCSubOf
  TicketOf <- MCTicketOf
  ParentOf <- MCParentOf
  PlanOf <- MCPlanOf
  AnalystOf <- MCAnalystOf
  Share <- MCShare
  Period = 2
CHECK_DEADLOCK FALSE
INVARIANTS
  LedgerMatchesStatus
  AccessMatchesPayments
  PaidTimeExact
