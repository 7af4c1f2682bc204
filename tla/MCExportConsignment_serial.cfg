SPECIFICATION FairSpec
CONSTANTS
  d1 = d1
  d2 = d2
  s1 = s1
  s2 = s2
  r1 = r1
  r2 = r2
  NoDevice = NoDevice
  Devices <- TwoDevices
  Shipments <- TwoShipments
  OprShipments <- OneShipment
  Requests <- OneRequest
  Serialised = TRUE
  Mortal <- FinaliseOps
  MaxDeaths = 2
  BatchSize = 1
  BulkSize = 2
  MaxLines = 3
INVARIANTS
  TypeOK
  StatusFollowsLines
PROPERTIES
  StrandedMoveOn
  ImplementsConsignment
CHECK_DEADLOCK FALSE
