SPECIFICATION Spec
CONSTANTS
  MaxCalls = 2
  MaxOutput = 3
  MaxForks = 2
  MaxBody = 2
  MaxEvents = 2
INVARIANTS
  NothingLeft
  VerdictHonest
PROPERTIES
  NoLateStart
  NotifyReturns
