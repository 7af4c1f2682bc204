SPECIFICATION Spec
CONSTANTS
  d1 = d1
  d2 = d2
  d3 = d3
  s1 = s1
  s2 = s2
  NoUnits = NoUnits
  Devices <- ThreeDevices
  Returns <- TwoReturns
  UnitChoices <- NoneOrOne
  MaxCorrected = 0
  MaxDeaths = 1
INVARIANT NoStuckReceipt
