SPECIFICATION MCSpec
CONSTANTS
  q1 = q1
  q2 = q2
  p1 = p1
  out = out
  ret = ret
  b1 = b1
  b2 = b2
  i1 = i1
  i2 = i2
  Blank = Blank
  Unusable = Unusable
  GBP = GBP
  NoBill = NoBill
  NoImei = NoImei
  d1 = d1
  d2 = d2
  buyer = buyer
  supplier = supplier
  stranger = stranger
  f1 = f1
  f2 = f2
  f3 = f3
  inv1 = inv1
  inv2 = inv2
  g1 = g1
  s1 = s1
  s2 = s2
  a1 = a1
  a2 = a2
  z1 = z1
  z2 = z2
  n1 = n1
  k1 = k1
  kA = kA
  kUG = kUG
  Nothing = Nothing
  Unset = Unset
  DefaultAdjustment = 2500
  Bills = {b1, b2}
  Header <- InvoiceHeaders
  Rows <- InvoiceRows
  Imeis = {i1, i2}
  Requests = {q1, q2}
  Amounts = {40}
  AloneOps = {"create", "post"}
  MaxManual = 2
  Consignments = {out, ret}
  Body <- Bodies
  Export <- Discharges
  Stock <- Handsets
  Changes <- Edits
  Authorisation <- Authority
  Policies <- ProcedurePolicies
  Today <- Date
  Values <- Reconciled
  Refs = {1}
  FiledAlone = {"create", "edit", "line", "finalise", "proof", "value"}
  MaxLog = 1
  SaleDevices = {d1, d2}
  SaleExports <- SaleFiles
  Disposition <- Contacts
  LOW_YIELD_MIN_ROWS = 2
  OneImport = TRUE
  MaxOthers = 1
  RepairDevices = {g1}
  OneRepair = TRUE
  WorkersDie = TRUE
  MaxRepairs = 4
  Skus = {s1, s2}
  Items = {a1, a2}
  ZohoSkus = {z1, z2}
  Notes = {n1}
  MapUploads <- MapFiles
  MaxWrites = 2
  Devices = {k1}
  Catalogue <- ModelSkus
  Arrivals <- Deliveries
  Visited = {"RECEIVED", "SORTING", "ACTIVE_INVENTORY", "SOLD"}
  OneCorrection = TRUE
  MaxJobs = 2
  MaxFlags = 1
  Shipments = {ret}
  Direction <- Directions
  Senders = {p1}
  MaxDay = 7
  MaxRows = 2
  MaxReplies = 1
SYMMETRY Staff
CHECK_DEADLOCK FALSE
INVARIANTS TypesOK ReceivedAsAcknowledged ClosedIsAccountedFor CostedAsLinked SoldAsRecorded OneLiveJob ClosedIffCompleted RepairIsResumable LabelsCatchUp LogIsHonest ChasedWhenDue FormIsHonest ReturnRulesAgree AmountsAddUp
PROPERTIES IntoZohoThroughTheGate EditsBuildOnWhatWasSeen
