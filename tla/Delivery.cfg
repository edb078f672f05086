SPECIFICATION DeliverySpec
CONSTANTS
  Clients = {c1, c2}
  Requests <- ControlRequests
  Publishers = {p1, p2}
  PageSize = 1
  MaxCalls = 2
  MaxFaults = 2
INVARIANTS ReplayedAnswer OutboxTruth StreamInOrder
PROPERTIES FeedImplemented
CHECK_DEADLOCK FALSE
