SPECIFICATION Spec
CONSTANTS
  MaxHandle = 2
  MaxInFlight = 1
  MaxRetained = 1
  MaxEvents = 3
  MaxCoalesced = 2
  QueueCapacity = 1
  MaxDeltas = 3
  Forms = {"text", "json"}
INVARIANTS StreamOrdered TerminalEventKept GapsRevealLoss
PROPERTIES ImplementsLifecycle
