SPECIFICATION Spec
CONSTANTS
  d1 = d1
  d2 = d2
  s1 = s1
  s2 = s2
  r1 = r1
  r2 = r2
  NoDevice = NoDevice
  Devices <- OneDevice
  Shipments <- OneShipment
  OprShipments <- OneShipment
  Requests <- TwoRequests
  Serialised = FALSE
  Mortal <- NoOps
  MaxDeaths = 0
  BatchSize = 1
  BulkSize = 1
  MaxLines = 2
PROPERTY NotSoldOffALine
