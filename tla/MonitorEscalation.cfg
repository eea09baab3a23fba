SPECIFICATION Spec
CONSTANTS
  Statuses <- QuietStatuses
  ReplBattDebounce = 0
  AlarmDebounce = 0
  NoCommThreshold = 2
  ReconnectBackoff = 1
  MaxBackoff = 4
  MaxBusy = 1
  MaxAge = 4
PROPERTIES
  LongOutageEscalated
