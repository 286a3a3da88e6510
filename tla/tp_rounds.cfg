SPECIFICATION UpSpec
CONSTANTS
  r1 = r1  r2 = r2  c1 = c1  c2 = c2
  Replicas = {r1, r2}
  Contents = {c1, c2}
  NoContent = NoContent
  Free = Free
  Operator = Operator
  NoEntry = NoEntry
  Rejects <- OneRejects
  MaxVersion = 2
  QueueCap = 1
  FaultKinds <- Faults
  MaxFaults = 1
  MaxRollbacks = 0
  ManualSyncOnly = FALSE
  CacheStrategy = "write_through"
  Retention = FALSE
  WebSocket = FALSE
  MaxRounds = 3
  Punctual = FALSE
INVARIANTS TypeOK DecidedFirst ActiveNeverLost StagedAsStored
PROPERTIES Unanimous BackOnlyWhenTold ImplementsPropagation
