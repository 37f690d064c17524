SPECIFICATION FairSpec
CONSTANTS
  shop = shop
  billing = billing
  Db = {shop, billing}
  Registries <- OneOrTwo
  BackupTicks = {1, 2, 4}
  RetentionTicks = {2, 3}
  Horizon = 4
  MaxFailures = 2
INVARIANTS
  TypeOK
  EachTickOnce
  TicksInOrder
  GivesUpRightly
  CleanStop
  SuccessReachesAll
PROPERTIES
  NoJobAfterSignal
  SignalStops
  TicksServed
