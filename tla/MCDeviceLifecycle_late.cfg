SPECIFICATION MCSpec
CONSTANTS
  raced = raced
  alone = alone
  r1 = r1
  r2 = r2
  Devices <- MCDevices
  Serialised <- MCSerialised
  Requests <- TwoRequests
  Users <- MCUsers
  ReasonCodes <- MCReasons
  MaxEvents <- MCMaxEvents
SYMMETRY Symmetry
INVARIANT StatusIsLastEvent
