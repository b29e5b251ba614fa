SPECIFICATION Spec
CONSTANTS
  EventSockets = {e1}
  LogSockets = {l1, l2}
  LogLevels = {"INFO", "CRITICAL"}
  LevelFilter <- Warnings
  MaxEntries = 4
  MAX_PENDING_EVENTS = 2
  MaxSize = 2
  MAX_ENTRIES = 2
  MAX_FAILED_LOGIN_ENTRIES = 1
  Limit = 1
  Ranges <- Halves
  Rounding = 1
  Buckets = {2}
  Mixes <- Apart
SYMMETRY Alike
INVARIANTS EventsReachAudience AuditKeepsOthers AuditPagesMissNothing HistogramCounts LogsReachClients
