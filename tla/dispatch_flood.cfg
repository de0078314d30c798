\* Violation: more coroutines than the permits can carry through their retries.
SPECIFICATION DispatchSpec
CONSTANTS
  Alerts = {"a1", "a2", "a3"}
  Permits = 4
  MaxRetry = 3
CHECK_DEADLOCK FALSE
PROPERTY BatchReturns
