SPECIFICATION TimedSpec
CONSTANTS
  Statuses <- TimedStatuses
  ReplBattDebounce = 0
  AlarmDebounce = 0
  NoCommThreshold = 0
  ReconnectBackoff = 1
  MaxBackoff = 1
  MaxBusy = 16
  MaxAge = 16
  StatusInterval = 4
  NutTimeout = 1
  TargetTimeout = 1
  WaitDelay = 1
  MostEvents = 5
INVARIANTS
  ShutdownDelayBounded
