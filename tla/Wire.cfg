SPECIFICATION Spec
CONSTANTS
  Requests <- Scripts
  Faults = {"error", "timeout", "reset", "garbage"}
  Budget = 1
  MaxRequests = 3
  MaxNotices = 1
INVARIANTS ReadsOwnAnswer InStep EveryRow
PROPERTIES ImplementsSession
