SPECIFICATION Spec
CONSTANTS
  i1 = i1
  i2 = i2
  m1 = m1
  m2 = m2
  l1 = l1
  l2 = l2
  l3 = l3
  r1 = r1
  r2 = r2
  NoImei = NoImei
  NoLine = NoLine
  NoManifest = NoManifest
  Imeis <- TwoImeis
  Manifests <- TwoManifests
  Lines <- ThreeLines
  ImeiOf <- MCImeiOf
  ManifestOf <- MCManifestOf
  Requests <- OneRequest
  Ops <- ConfirmAndDelete
  Alone <- Undo
  Mortal <- NoOps
  MaxDeaths = 0
  MaxIds = 3
PROPERTY DeleteRestoresLine
