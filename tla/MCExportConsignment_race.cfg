SPECIFICATION Spec
CONSTANTS
  d1 = d1
  d2 = d2
  s1 = s1
  s2 = s2
  r1 = r1
  r2 = r2
  NoDevice = NoDevice
  Devices <- TwoDevices
  Shipments <- TwoShipments
  OprShipments <- OneShipment
  Requests <- TwoRequests
  Serialised = FALSE
  Mortal <- NoOps
  MaxDeaths = 0
  BatchSize = 1
  BulkSize = 1
  MaxLines = 2
SYMMETRY Symmetry
INVARIANTS
  OneFinaliser
  NothingLeavesOnADraft
CHECK_DEADLOCK FALSE
