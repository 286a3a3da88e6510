SPECIFICATION Spec
CONSTANTS
  r1 = r1  r2 = r2  c1 = c1  c2 = c2
  Replicas = {r1, r2}
  Contents = {c1, c2}
  NoContent = NoContent
  Free = Free
  Operator = Operator
  NoEntry = NoEntry
  Rejects <- AcceptAll
  MaxVersion = 2
  QueueCap = 1
  FaultKinds <- AllFaults
  MaxFaults = 1
  MaxRollbacks = 0
  ManualSyncOnly = FALSE
  CacheStrategy = "write_through"
  Retention = TRUE
  WebSocket = TRUE
INVARIANTS TypeOK DecidedFirst
PROPERTIES ForwardOnly ImplementsPropagation
SYMMETRY Interchangeable
