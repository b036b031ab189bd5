SPECIFICATION FairBridgeSpec
CONSTANTS
  MaxHandle = 2
  MaxInFlight = 1
  MaxRetained = 1
  MaxEvents = 2
  MaxCoalesced = 2
  QueueCapacity = 1
  MaxDeltas = 0
  Forms = {"text"}
  Pumps = {p1}
INVARIANTS ActiveCountExact RetentionExact CancelledIsSignalled DropWaitsForAll
INVARIANTS EntriesRemembered
PROPERTIES HandlesForgotten AcceptedTerminates
