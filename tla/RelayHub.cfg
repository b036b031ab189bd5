SPECIFICATION FairSpec
CONSTANTS
  c1 = c1  c2 = c2  r1 = r1  r2 = r2  g1 = g1
  Gateways = {g1}
  Connections = {c1, c2}
  Requests = {r1}
  GatewayOf <- OneGateway
  RouteOf <- AllToOne
  Negotiated = {c2}
  NoConnection = NoConnection
  Capacity = 1
  MaxNotices = 1
INVARIANTS PendingMatchesCalls CancelFollowsInvoke NoCrossTalk NewestIsCurrent
INVARIANT AnswerReachesCaller
CHECK_DEADLOCK FALSE
PROPERTIES CallsReturn GivenUpIsTold
