SPECIFICATION Spec
CONSTANTS
  Statuses <- PowerStatuses
  ReplBattDebounce = 0
  AlarmDebounce = 0
  NoCommThreshold = 1
  ReconnectBackoff = 1
  MaxBackoff = 1
  MaxBusy = 0
  MaxAge = 1
INVARIANTS
  TypeOK
  ShutdownAlertedFirst
PROPERTIES
  Contract
  PayloadAgrees
