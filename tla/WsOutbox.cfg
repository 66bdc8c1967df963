SPECIFICATION FairSpec
CONSTANTS
  Keys <- MCKeys
  NoKey = NoKey
  MaxPuts = 6
INVARIANTS
  TypeOK
  CausalDelivery
  NothingLost
  NoLostWakeup
  PendingBounded
  SenderNotStarved
PROPERTIES
  EventuallySent
  ImplementsChannel
CHECK_DEADLOCK FALSE
