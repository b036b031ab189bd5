SPECIFICATION Spec
CONSTANTS
  MaxRequests = 3
  MaxCalls = 1
  MaxRejections = 1
  QueueCapacity = 1
  MaxUploads = 1
  MaxBacklog = 1
INVARIANTS BatchesAccounted FlushRuns NoOrphans
PROPERTIES TasksEnd BacklogDrains
CHECK_DEADLOCK FALSE
