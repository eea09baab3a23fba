SPECIFICATION FairSpec
CONSTANTS
  Statuses <- FaultStatuses
  ReplBattDebounce = 2
  AlarmDebounce = 1
  NoCommThreshold = 0
  ReconnectBackoff = 1
  MaxBackoff = 1
  MaxBusy = 1
  MaxAge = 3
INVARIANTS
  SubscriberInformed
  AlarmTextCurrent
PROPERTIES
  DebounceExact
  Contract
  FaultConfirmed
