SPECIFICATION Spec
CONSTANTS
  i1 = i1
  i2 = i2
  m1 = m1
  m2 = m2
  l1 = l1
  l2 = l2
  l3 = l3
  r1 = r1
  r2 = r2
  NoImei = NoImei
  NoLine = NoLine
  NoManifest = NoManifest
  Imeis <- TwoImeis
  Manifests <- TwoManifests
  Lines <- ThreeLines
  ImeiOf <- MCImeiOf
  ManifestOf <- MCManifestOf
  Requests <- TwoRequests
  Ops <- AllOps
  Alone <- Undo
  Mortal <- Scanning
  MaxDeaths = 2
  MaxIds = 4
SYMMETRY Symmetry
INVARIANTS
  TypeOK
  LinesAndDevicesAgree
  ReceivedOnce
PROPERTY ReceivedLineStands
