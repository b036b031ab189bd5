SPECIFICATION BridgeSpec
CONSTANTS
  MaxHandle = 1
  MaxInFlight = 1
  MaxRetained = 1
  MaxEvents = 4
  MaxCoalesced = 2
  QueueCapacity = 1
  MaxDeltas = 0
  Forms = {"text"}
  Pumps = {p1}
INVARIANT TerminalFrameDelivered
