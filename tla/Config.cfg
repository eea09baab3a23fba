SPECIFICATION Spec
CONSTANT MaxEdits = 2
INVARIANTS
  DurationsAsWritten
  AddressReached
  TargetsDeliverable
  SubscriptionAsWritten
