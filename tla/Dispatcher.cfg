SPECIFICATION FairSpec
CONSTANTS
  N = 4
  Kinds <- SomeKinds
  Wants <- SomeFilters
  MaxEvents = 4
INVARIANTS
  TypeOK
  NoOverlap
PROPERTIES
  KeepsContract
  DispatchReturns
