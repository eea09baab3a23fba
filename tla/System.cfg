SPECIFICATION SysFairSpec
CONSTANTS
  Statuses <- SomeStatuses
  ReplBattDebounce = 0
  AlarmDebounce = 0
  NoCommThreshold = 0
  ReconnectBackoff = 1
  MaxBackoff = 1
  MaxBusy = 0
  MaxAge = 1
  N = 2
  Wants <- SomeFilters
  MaxEvents = 7
INVARIANTS
  TargetsInformed
  ShutdownHandledFirst
PROPERTIES
  EndsOnCancel
