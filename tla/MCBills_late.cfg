SPECIFICATION Spec
CONSTANTS
  q1 = q1
  q2 = q2
  b1 = b1
  b2 = b2
  i1 = i1
  i2 = i2
  Blank = Blank
  Unusable = Unusable
  GBP = GBP
  NoBill = NoBill
  NoImei = NoImei
  Bills = {b1, b2}
  Header <- InvoiceHeaders
  Rows <- InvoiceRows
  Imeis = {i1, i2}
  Requests = {q1, q2}
  Amounts = {40}
  AloneOps = {"create", "post"}
  MaxManual = 2
SYMMETRY Staff
CHECK_DEADLOCK FALSE
INVARIANT ReceivedIsLinked
